---- MODULE Spec2Model ----
(***************************************************************************)
(* Region-file inspection tools of WorldPainter's Hytale support:          *)
(*   compare_chunks.py  read_region_header, read_blob_index, read_chunk,   *)
(*                      analyze_fluid_section, analyze_block_section,      *)
(*                      analyze_heightmap, analyze_region                  *)
(*   check_levels.py    the same container and fluid-section layout,       *)
(*                      decoded inline                                     *)
(* Byte buffers are sequences of 0..255 (1-based here, 0-based in the      *)
(* source: data[pos] is data[pos + 1] below); a state holds a buffer       *)
(* run-length encoded, as a sequence of <<byte, repetitions>>.  Python     *)
(* exceptions are the value of err and the control state "raised".         *)
(***************************************************************************)
EXTENDS Integers, Sequences, FiniteSets, TLC

VARIABLES
    pc,             \* control state of the program or decoder that runs
    err,            \* the exception raised, "" while none
    \* a section or heightmap decoder
    dec,            \* which decoder runs on doc, "none" for none
    doc,            \* the BSON sub-document handed to the decoder
    pos,            \* read position in data (p in check_levels.py)
    result,         \* the result dict (what check_levels.py prints)
    entries,        \* the palette entries read so far
    \* analyze_heightmap
    palette_count,
    heights_palette,
    sample_heights,
    \* a program reading a region file
    prog,           \* which program runs on file, "none" for none
    file,           \* the bytes of the region file
    file_exists,    \* there is a file at the path
    f_open,         \* the handle f is open
    f_pos,          \* the position of the handle f
    version,        \* the header fields, -1 while unbound
    blob_count,
    segment_size,
    blob_indices,   \* the blob index table (indices in check_levels.py)
    blob_idx,       \* the slot of the loop (bi in check_levels.py)
    chunks_analyzed,
    position,       \* the offset of the slot's blob (pos in check_levels.py)
    src_length,
    compressed_length,
    compressed_data,
    raw_data,       \* the decompressed blob (raw in check_levels.py)
    chunk_doc,      \* the decoded chunk document
    \* a caller of the decoders
    calls,          \* the decode calls that have ended, each with what it gave
    \* workers that call read_chunk at the same time
    workers,        \* each worker's slot, handle and locals of read_chunk
    handles,        \* the position of each open handle
    \* generate_colors.py
    all_colours,    \* the colour planned for each terrain
    used_colours,   \* the colours given out by the pass over all_colours
    terrain_name,   \* the terrain of the pass, 0 before the pass
    colour          \* its colour, nudged while it is in used_colours

sectionVars == <<dec, doc, pos, result, entries>>
heightmapVars == <<palette_count, heights_palette, sample_heights>>
regionVars ==
    <<prog, file, file_exists, f_open, f_pos, version, blob_count, segment_size, blob_indices,
      blob_idx, chunks_analyzed, position, src_length, compressed_length,
      compressed_data, raw_data, chunk_doc>>

callVars == <<calls>>
workerVars == <<workers, handles>>
colourVars == <<all_colours, used_colours, terrain_name, colour>>

vars == <<pc, err, sectionVars, heightmapVars, regionVars, callVars, workerVars, colourVars>>

\* the bytes of a run-length encoded buffer
RECURSIVE Bytes(_)
Bytes(runs) ==
    IF runs = <<>> THEN <<>>
    ELSE [i \in 1..Head(runs)[2] |-> Head(runs)[1]] \o Bytes(Tail(runs))

\* data = bytes(doc["Data"]) (fd in check_levels.py): the buffer being decoded
data == Bytes(doc.Data)

-----------------------------------------------------------------------------
(* Python primitives *)

Min2(a, b) == IF a < b THEN a ELSE b

\* data[a:b]: a slice never fails, it is cut at the end of the buffer
Slice(d, a, b) == SubSeq(d, a + 1, Min2(b, Len(d)))

\* data[i] is defined (no IndexError)
InRange(d, i) == i >= 0 /\ i < Len(d)

\* struct.unpack(">H", bs)[0], for Len(bs) = 2
U16BE(bs) == bs[1] * 256 + bs[2]

\* struct.unpack(">I", bs)[0], for Len(bs) = 4
U32BE(bs) == ((bs[1] * 256 + bs[2]) * 256 + bs[3]) * 256 + bs[4]

\* b & 0xF and (b >> 4) & 0xF
LowNibble(b) == b % 16
HighNibble(b) == (b \div 16) % 16

EmptyDict == [k \in {} |-> 0]

-----------------------------------------------------------------------------
(* bytes.decode("utf-8"), strict: the code points, or a failure            *)

IsCont(b) == b >= 128 /\ b <= 191

\* the length of the UTF-8 sequence that the lead byte b announces, 0 if none
Utf8SeqLen(b) ==
    IF b < 128 THEN 1
    ELSE IF b >= 194 /\ b <= 223 THEN 2
    ELSE IF b >= 224 /\ b <= 239 THEN 3
    ELSE IF b >= 240 /\ b <= 244 THEN 4
    ELSE 0

\* the second byte of a sequence is in the range its lead byte allows
\* (no overlong forms, no surrogates, nothing above U+10FFFF)
Utf8SecondOk(b1, b2) ==
    CASE b1 = 224 -> b2 >= 160 /\ b2 <= 191
      [] b1 = 237 -> b2 >= 128 /\ b2 <= 159
      [] b1 = 240 -> b2 >= 144 /\ b2 <= 191
      [] b1 = 244 -> b2 >= 128 /\ b2 <= 143
      [] OTHER -> IsCont(b2)

Utf8CodePoint(bs, i, n) ==
    CASE n = 1 -> bs[i]
      [] n = 2 -> (bs[i] - 192) * 64 + (bs[i + 1] - 128)
      [] n = 3 -> ((bs[i] - 224) * 64 + (bs[i + 1] - 128)) * 64 + (bs[i + 2] - 128)
      [] n = 4 -> (((bs[i] - 240) * 64 + (bs[i + 1] - 128)) * 64
                      + (bs[i + 2] - 128)) * 64 + (bs[i + 3] - 128)

RECURSIVE Utf8From(_, _)
Utf8From(bs, i) ==
    IF i > Len(bs) THEN [ok |-> TRUE, s |-> <<>>]
    ELSE LET n == Utf8SeqLen(bs[i]) IN
         IF n = 0 \/ i + n - 1 > Len(bs) THEN [ok |-> FALSE, s |-> <<>>]
         ELSE IF n >= 2 /\ ~Utf8SecondOk(bs[i], bs[i + 1]) THEN [ok |-> FALSE, s |-> <<>>]
         ELSE IF \E k \in 2..(n - 1) : ~IsCont(bs[i + k]) THEN [ok |-> FALSE, s |-> <<>>]
         ELSE LET rest == Utf8From(bs, i + n) IN
              [ok |-> rest.ok, s |-> <<Utf8CodePoint(bs, i, n)>> \o rest.s]

DecodeUtf8(bs) == Utf8From(bs, 1)

-----------------------------------------------------------------------------
(* The palette table shared by the three section decoders                  *)

PALETTE_NAMES(palette_type) ==
    CASE palette_type = 0 -> "EMPTY"
      [] palette_type = 1 -> "HALF_BYTE"
      [] palette_type = 2 -> "BYTE"
      [] palette_type = 3 -> "SHORT"
      [] OTHER -> "UNKNOWN"

\* the count field read as one byte: the position after the entry is short by one
ReadEntry_ShortCount(d, p) ==
    IF ~InRange(d, p) THEN [err |-> "IndexError"]
    ELSE IF Len(Slice(d, p + 1, p + 3)) < 2 THEN [err |-> "struct.error"]
    ELSE LET str_len == U16BE(Slice(d, p + 1, p + 3))
             name == DecodeUtf8(Slice(d, p + 3, p + 3 + str_len))
             q == p + 3 + str_len
         IN  IF ~name.ok THEN [err |-> "UnicodeDecodeError"]
             ELSE IF Len(Slice(d, q, q + 1)) < 1 THEN [err |-> "struct.error"]
             ELSE [err |-> "",
                   entry |-> [id |-> d[p + 1], name |-> name.s, count |-> d[q + 1]],
                   pos |-> q + 1]

\* One iteration of the entry loop at read position p: the exception it
\* raises ("" if none), the entry and the position after it.
ReadEntry(d, p) ==
    IF ~InRange(d, p) THEN [err |-> "IndexError"]
    ELSE IF Len(Slice(d, p + 1, p + 3)) < 2 THEN [err |-> "struct.error"]
    ELSE LET internal_id == d[p + 1]
             str_len == U16BE(Slice(d, p + 1, p + 3))
             name == DecodeUtf8(Slice(d, p + 3, p + 3 + str_len))
             q == p + 3 + str_len
         IN  IF ~name.ok THEN [err |-> "UnicodeDecodeError"]
             ELSE IF Len(Slice(d, q, q + 2)) < 2 THEN [err |-> "struct.error"]
             ELSE [err |-> "",
                   entry |-> [id |-> internal_id, name |-> name.s,
                              count |-> U16BE(Slice(d, q, q + 2))],
                   pos |-> q + 2]

-----------------------------------------------------------------------------
(* Voxel arrays *)

VOXELS == 32768
NIBBLE_ARRAY_BYTES == 16384
BYTE_ARRAY_BYTES == 32768
SAMPLE_LIMIT == 20

\* the nibbles of the fluid voxel array taken the way the level loop does
FluidNibble_EvenLow(block_data, i) ==
    IF i % 2 = 0 THEN LowNibble(block_data[(i \div 2) + 1])
    ELSE HighNibble(block_data[(i \div 2) + 1])

\* the fluid voxel array loop, compare_chunks.py: HIGH nibble for even
FluidNibble(block_data, i) ==
    IF i % 2 = 0 THEN HighNibble(block_data[(i \div 2) + 1])
    ELSE LowNibble(block_data[(i \div 2) + 1])

\* the level array loop, compare_chunks.py: LOW nibble for even
LevelNibble(level_data, i) ==
    IF i % 2 = 0 THEN LowNibble(level_data[(i \div 2) + 1])
    ELSE HighNibble(level_data[(i \div 2) + 1])

\* the voxels counted by "if nibble != 0" and by "if level != 0"
FluidVoxels(block_data) == { i \in 0..(VOXELS - 1) : FluidNibble(block_data, i) # 0 }
LevelVoxels(level_data) == { i \in 0..(VOXELS - 1) : LevelNibble(level_data, i) # 0 }

\* x = i & 0x1F, z = (i >> 5) & 0x1F, y = (i >> 10) & 0x1F
VoxelX(i) == i % 32
\* z without the mask: the shift alone
VoxelZ_NoMask(i) == i \div 32
VoxelZ(i) == (i \div 32) % 32
VoxelY(i) == (i \div 1024) % 32

\* The n smallest members of the set S of naturals, ascending: the voxels
\* that a loop over range(32768) appends while len(list) < 20.
RECURSIVE FirstOf(_, _)
FirstOf(S, n) ==
    IF n = 0 \/ S = {} THEN <<>>
    ELSE LET m == CHOOSE x \in S : \A y \in S : x <= y
         IN  <<m>> \o FirstOf(S \ {m}, n - 1)

-----------------------------------------------------------------------------
(* analyze_fluid_section(fluid_doc) *)

Raise(e) == err' = e /\ pc' = "raised"

Fluid_Enter ==
    /\ dec = "fluid" /\ pc = "call"
    /\ IF "Data" \notin doc.keys
       THEN /\ result' = [status |-> "no_data"]
            /\ pc' = "returned"
            /\ UNCHANGED pos
       ELSE /\ pos' = 0
            /\ pc' = "palette_type"
            /\ UNCHANGED result
    /\ UNCHANGED <<dec, doc, err, entries>>
    /\ UNCHANGED <<heightmapVars, regionVars>>
    /\ UNCHANGED <<callVars, workerVars, colourVars>>

Fluid_PaletteType ==
    /\ dec = "fluid" /\ pc = "palette_type"
    /\ IF ~InRange(data, pos)
       THEN Raise("IndexError") /\ UNCHANGED <<pos, result>>
       ELSE LET palette_type == data[pos + 1] IN
            /\ pos' = pos + 1
            /\ result' = [palette_type |-> palette_type,
                          palette_type_name |-> PALETTE_NAMES(palette_type)]
            /\ pc' = IF palette_type = 0 THEN "empty" ELSE "entry_count"
            /\ UNCHANGED err
    /\ UNCHANGED <<dec, doc, entries>>
    /\ UNCHANGED <<heightmapVars, regionVars>>
    /\ UNCHANGED <<callVars, workerVars, colourVars>>

\* EMPTY returning at once, the way analyze_block_section does
Fluid_Empty_NoFlag ==
    /\ dec = "fluid" /\ pc = "empty"
    /\ pc' = "returned"
    /\ UNCHANGED <<err, dec, doc, pos, result, entries>>
    /\ UNCHANGED <<heightmapVars, regionVars>>
    /\ UNCHANGED <<callVars, workerVars, colourVars>>

Fluid_Empty ==
    /\ dec = "fluid" /\ pc = "empty"
    /\ IF ~InRange(data, pos)
       THEN Raise("IndexError") /\ UNCHANGED <<pos, result>>
       ELSE /\ pos' = pos + 1
            /\ result' = [has_levels |-> data[pos + 1] # 0] @@ result
            /\ pc' = "returned"
            /\ UNCHANGED err
    /\ UNCHANGED <<dec, doc, entries>>
    /\ UNCHANGED <<heightmapVars, regionVars>>
    /\ UNCHANGED <<callVars, workerVars, colourVars>>

Fluid_EntryCount ==
    /\ dec = "fluid" /\ pc = "entry_count"
    /\ IF Len(Slice(data, pos, pos + 2)) < 2
       THEN Raise("struct.error") /\ UNCHANGED <<pos, result, entries>>
       ELSE /\ result' = [entry_count |-> U16BE(Slice(data, pos, pos + 2))] @@ result
            /\ pos' = pos + 2
            /\ entries' = <<>>
            /\ pc' = "entry"
            /\ UNCHANGED err
    /\ UNCHANGED <<dec, doc>>
    /\ UNCHANGED <<heightmapVars, regionVars>>
    /\ UNCHANGED <<callVars, workerVars, colourVars>>

Fluid_Entry ==
    /\ dec = "fluid" /\ pc = "entry"
    /\ Len(entries) < result.entry_count
    /\ LET r == ReadEntry(data, pos) IN
       IF r.err # ""
       THEN Raise(r.err) /\ UNCHANGED <<pos, entries>>
       ELSE /\ entries' = Append(entries, r.entry)
            /\ pos' = r.pos
            /\ UNCHANGED <<pc, err>>
    /\ UNCHANGED <<dec, doc, result>>
    /\ UNCHANGED <<heightmapVars, regionVars>>
    /\ UNCHANGED <<callVars, workerVars, colourVars>>

Fluid_Entries ==
    /\ dec = "fluid" /\ pc = "entry"
    /\ Len(entries) = result.entry_count
    /\ result' = [entries |-> entries] @@ result
    /\ pc' = "block_data"
    /\ UNCHANGED <<dec, doc, pos, err, entries>>
    /\ UNCHANGED <<heightmapVars, regionVars>>
    /\ UNCHANGED <<callVars, workerVars, colourVars>>

SamplePosition(i, v) ==
    [index |-> i, x |-> VoxelX(i), y |-> VoxelY(i), z |-> VoxelZ(i), palette_idx |-> v]

Fluid_BlockData ==
    /\ dec = "fluid" /\ pc = "block_data"
    /\ IF result.palette_type = 1
       THEN \E block_data \in { Slice(data, pos, pos + NIBBLE_ARRAY_BYTES) } :
            IF Len(block_data) < NIBBLE_ARRAY_BYTES
            THEN Raise("IndexError") /\ UNCHANGED <<pos, result>>
            ELSE \E fluid \in { FluidVoxels(block_data) } :
                 \E fluid_positions \in { FirstOf(fluid, SAMPLE_LIMIT) } :
                     /\ result' = [fluid_block_count |-> Cardinality(fluid),
                                   sample_positions |->
                                       [k \in 1..Len(fluid_positions) |->
                                           SamplePosition(fluid_positions[k],
                                               FluidNibble(block_data, fluid_positions[k]))]]
                                  @@ result
                     /\ pos' = pos + NIBBLE_ARRAY_BYTES
                     /\ pc' = "has_levels"
                     /\ UNCHANGED err
       ELSE IF result.palette_type = 2
       THEN \E block_data \in { Slice(data, pos, pos + BYTE_ARRAY_BYTES) } :
            /\ result' = [fluid_block_count |->
                              Cardinality({ i \in 1..Len(block_data) : block_data[i] # 0 })] @@ result
            /\ pos' = pos + BYTE_ARRAY_BYTES
            /\ pc' = "has_levels"
            /\ UNCHANGED err
       ELSE /\ pc' = "has_levels"
            /\ UNCHANGED <<pos, result, err>>
    /\ UNCHANGED <<dec, doc, entries>>
    /\ UNCHANGED <<heightmapVars, regionVars>>
    /\ UNCHANGED <<callVars, workerVars, colourVars>>

\* the position of a voxel of the level array: x = i & 0x1F, z = (i >> 5) & 0x1F,
\* y = (i >> 10) & 0x1F
LevelX(i) == i % 32
LevelZ(i) == (i \div 32) % 32
LevelY(i) == (i \div 1024) % 32

SampleLevel(i, v) ==
    [index |-> i, x |-> LevelX(i), y |-> LevelY(i), z |-> LevelZ(i), level |-> v]

Fluid_HasLevels ==
    /\ dec = "fluid" /\ pc = "has_levels"
    /\ IF ~InRange(data, pos)
       THEN Raise("IndexError") /\ UNCHANGED <<pos, result>>
       ELSE /\ result' = [has_levels |-> data[pos + 1] # 0] @@ result
            /\ pos' = pos + 1
            /\ pc' = IF data[pos + 1] # 0 THEN "level_data" ELSE "returned"
            /\ UNCHANGED err
    /\ UNCHANGED <<dec, doc, entries>>
    /\ UNCHANGED <<heightmapVars, regionVars>>
    /\ UNCHANGED <<callVars, workerVars, colourVars>>

Fluid_LevelData ==
    /\ dec = "fluid" /\ pc = "level_data"
    /\ \E level_data \in { Slice(data, pos, pos + NIBBLE_ARRAY_BYTES) } :
       IF Len(level_data) < NIBBLE_ARRAY_BYTES
       THEN Raise("IndexError") /\ UNCHANGED <<pos, result>>
       ELSE \E levels \in { LevelVoxels(level_data) } :
            \E level_positions \in { FirstOf(levels, SAMPLE_LIMIT) } :
                /\ result' = [non_zero_levels |-> Cardinality(levels),
                              sample_levels |->
                                  [k \in 1..Len(level_positions) |->
                                      SampleLevel(level_positions[k],
                                          LevelNibble(level_data, level_positions[k]))]]
                             @@ result
                /\ pos' = pos + NIBBLE_ARRAY_BYTES
                /\ pc' = "returned"
                /\ UNCHANGED err
    /\ UNCHANGED <<dec, doc, entries>>
    /\ UNCHANGED <<heightmapVars, regionVars>>
    /\ UNCHANGED <<callVars, workerVars, colourVars>>

-----------------------------------------------------------------------------
(* analyze_block_section(block_doc) *)

Block_Enter ==
    /\ dec = "block" /\ pc = "call"
    /\ result' = IF "Version" \in doc.keys THEN [version |-> doc.Version] ELSE EmptyDict
    /\ pos' = 0
    /\ pc' = IF "Data" \notin doc.keys THEN "returned" ELSE "migration"
    /\ UNCHANGED <<dec, doc, err, entries>>
    /\ UNCHANGED <<heightmapVars, regionVars>>
    /\ UNCHANGED <<callVars, workerVars, colourVars>>

\* version = block_doc.get("Version", 0)
BlockVersion == IF "Version" \in doc.keys THEN doc.Version ELSE 0

Block_Migration ==
    /\ dec = "block" /\ pc = "migration"
    /\ IF BlockVersion >= 6
       THEN IF Len(Slice(data, pos, pos + 4)) < 4
            THEN Raise("struct.error") /\ UNCHANGED <<pos, result>>
            ELSE /\ result' = [migration_version |-> U32BE(Slice(data, pos, pos + 4))]
                              @@ result
                 /\ pos' = pos + 4
                 /\ pc' = "palette_type"
                 /\ UNCHANGED err
       ELSE /\ pc' = "palette_type"
            /\ UNCHANGED <<pos, result, err>>
    /\ UNCHANGED <<dec, doc, entries>>
    /\ UNCHANGED <<heightmapVars, regionVars>>
    /\ UNCHANGED <<callVars, workerVars, colourVars>>

Block_PaletteType ==
    /\ dec = "block" /\ pc = "palette_type"
    /\ IF ~InRange(data, pos)
       THEN Raise("IndexError") /\ UNCHANGED <<pos, result>>
       ELSE LET palette_type == data[pos + 1] IN
            /\ pos' = pos + 1
            /\ result' = [palette_type |-> palette_type,
                          palette_type_name |-> PALETTE_NAMES(palette_type)] @@ result
            /\ pc' = IF palette_type = 0 THEN "returned" ELSE "entry_count"
            /\ UNCHANGED err
    /\ UNCHANGED <<dec, doc, entries>>
    /\ UNCHANGED <<heightmapVars, regionVars>>
    /\ UNCHANGED <<callVars, workerVars, colourVars>>

Block_EntryCount ==
    /\ dec = "block" /\ pc = "entry_count"
    /\ IF Len(Slice(data, pos, pos + 2)) < 2
       THEN Raise("struct.error") /\ UNCHANGED <<pos, result, entries>>
       ELSE /\ result' = [entry_count |-> U16BE(Slice(data, pos, pos + 2))] @@ result
            /\ pos' = pos + 2
            /\ entries' = <<>>
            /\ pc' = "entry"
            /\ UNCHANGED err
    /\ UNCHANGED <<dec, doc>>
    /\ UNCHANGED <<heightmapVars, regionVars>>
    /\ UNCHANGED <<callVars, workerVars, colourVars>>

Block_Entry ==
    /\ dec = "block" /\ pc = "entry"
    /\ Len(entries) < result.entry_count
    /\ LET r == ReadEntry(data, pos) IN
       IF r.err # ""
       THEN Raise(r.err) /\ UNCHANGED <<pos, entries>>
       ELSE /\ entries' = Append(entries, r.entry)
            /\ pos' = r.pos
            /\ UNCHANGED <<pc, err>>
    /\ UNCHANGED <<dec, doc, result>>
    /\ UNCHANGED <<heightmapVars, regionVars>>
    /\ UNCHANGED <<callVars, workerVars, colourVars>>

Block_Entries ==
    /\ dec = "block" /\ pc = "entry"
    /\ Len(entries) = result.entry_count
    /\ result' = [entries |-> entries] @@ result
    /\ pc' = "returned"
    /\ UNCHANGED <<dec, doc, pos, err, entries>>
    /\ UNCHANGED <<heightmapVars, regionVars>>
    /\ UNCHANGED <<callVars, workerVars, colourVars>>

-----------------------------------------------------------------------------
(* check_levels.py, the body of "for si, sec in enumerate(cc['Sections'])": *)
(* doc is sec's Components; the key "Data" is that of comps['Fluid'].       *)

\* the level loop of check_levels.py: bi2 = i >> 1, low nibble if (i & 1) == 0
CL_LevelNibble(ld, i) ==
    IF i % 2 = 0 THEN LowNibble(ld[(i \div 2) + 1])
    ELSE HighNibble(ld[(i \div 2) + 1])

CL_LevelVoxels(ld) == { i \in 0..(VOXELS - 1) : CL_LevelNibble(ld, i) # 0 }

\* fd = bytes(comps['Fluid'].get('Data', b''))
CL_fd == IF "Data" \in doc.keys THEN data ELSE <<>>

CL_Enter ==
    /\ dec = "levels" /\ pc = "call"
    /\ IF "Fluid" \notin doc.keys \/ CL_fd = <<>> \/ CL_fd[1] = 0
       THEN pc' = "returned" /\ UNCHANGED pos
       ELSE pc' = "entry_count" /\ pos' = 1
    /\ UNCHANGED <<dec, doc, err, result, entries>>
    /\ UNCHANGED <<heightmapVars, regionVars>>
    /\ UNCHANGED <<callVars, workerVars, colourVars>>

CL_EntryCount ==
    /\ dec = "levels" /\ pc = "entry_count"
    /\ IF Len(Slice(data, pos, pos + 2)) < 2
       THEN Raise("struct.error") /\ UNCHANGED <<pos, result, entries>>
       ELSE /\ result' = [ec |-> U16BE(Slice(data, pos, pos + 2))]
            /\ pos' = pos + 2
            /\ entries' = <<>>
            /\ pc' = "entry"
            /\ UNCHANGED err
    /\ UNCHANGED <<dec, doc>>
    /\ UNCHANGED <<heightmapVars, regionVars>>
    /\ UNCHANGED <<callVars, workerVars, colourVars>>

CL_Entry ==
    /\ dec = "levels" /\ pc = "entry"
    /\ Len(entries) < result.ec
    /\ LET r == ReadEntry(data, pos) IN
       IF r.err # ""
       THEN Raise(r.err) /\ UNCHANGED <<pos, entries>>
       ELSE /\ entries' = Append(entries, r.entry)
            /\ pos' = r.pos
            /\ UNCHANGED <<pc, err>>
    /\ UNCHANGED <<dec, doc, result>>
    /\ UNCHANGED <<heightmapVars, regionVars>>
    /\ UNCHANGED <<callVars, workerVars, colourVars>>

\* print(... palette={entries}); p += 16384  # skip block data
CL_SkipBlockData ==
    /\ dec = "levels" /\ pc = "entry"
    /\ Len(entries) = result.ec
    /\ result' = [palette |-> entries] @@ result
    /\ pos' = pos + NIBBLE_ARRAY_BYTES
    /\ pc' = "has_levels"
    /\ UNCHANGED <<dec, doc, err, entries>>
    /\ UNCHANGED <<heightmapVars, regionVars>>
    /\ UNCHANGED <<callVars, workerVars, colourVars>>

CL_HasLevels ==
    /\ dec = "levels" /\ pc = "has_levels"
    /\ IF ~InRange(data, pos)
       THEN Raise("IndexError") /\ UNCHANGED <<pos, result>>
       ELSE /\ result' = [has_levels |-> data[pos + 1] # 0] @@ result
            /\ pos' = pos + 1
            /\ pc' = IF data[pos + 1] # 0 THEN "level_data" ELSE "returned"
            /\ UNCHANGED err
    /\ UNCHANGED <<dec, doc, entries>>
    /\ UNCHANGED <<heightmapVars, regionVars>>
    /\ UNCHANGED <<callVars, workerVars, colourVars>>

\* x = i & 0x1F, z = (i >> 5) & 0x1F, y = (i >> 10) & 0x1F
CL_VoxelX(i) == i % 32
CL_VoxelZ(i) == (i \div 32) % 32
CL_VoxelY(i) == (i \div 1024) % 32

LevelFound(i, lv) ==
    [x |-> CL_VoxelX(i), y |-> CL_VoxelY(i), z |-> CL_VoxelZ(i), level |-> lv]

CL_Levels ==
    /\ dec = "levels" /\ pc = "level_data"
    /\ \E ld \in { Slice(data, pos, pos + NIBBLE_ARRAY_BYTES) } :
       IF Len(ld) < NIBBLE_ARRAY_BYTES
       THEN Raise("IndexError") /\ UNCHANGED result
       ELSE \E levels_found \in { FirstOf(CL_LevelVoxels(ld), SAMPLE_LIMIT) } :
                /\ result' = [Levels |->
                                  [k \in 1..Len(levels_found) |->
                                      LevelFound(levels_found[k],
                                                 CL_LevelNibble(ld, levels_found[k]))]]
                             @@ result
                /\ pc' = "returned"
                /\ UNCHANGED err
    /\ UNCHANGED <<dec, doc, pos, entries>>
    /\ UNCHANGED <<heightmapVars, regionVars>>
    /\ UNCHANGED <<callVars, workerVars, colourVars>>

-----------------------------------------------------------------------------
(* compare_chunks.py, analyze_heightmap(block_chunk_doc) *)

SAMPLE_COLUMNS == 64
HEIGHT_BITS == 10

None == "None"

\* struct.unpack("<H", bs)[0]
U16LE(bs) == bs[1] + 256 * bs[2]

\* a signed 16-bit value read most significant byte first
S16BE(bs) ==
    IF bs[1] * 256 + bs[2] >= 32768 THEN bs[1] * 256 + bs[2] - 65536
    ELSE bs[1] * 256 + bs[2]

\* struct.unpack("<h", bs)[0]
S16LE(bs) == IF U16LE(bs) >= 32768 THEN U16LE(bs) - 65536 ELSE U16LE(bs)

\* struct.unpack("<I", bs)[0]
U32LE(bs) == bs[1] + 256 * (bs[2] + 256 * (bs[3] + 256 * bs[4]))

SeqMin(hs) == CHOOSE m \in { hs[k] : k \in DOMAIN hs } : \A k \in DOMAIN hs : m <= hs[k]
SeqMax(hs) == CHOOSE m \in { hs[k] : k \in DOMAIN hs } : \A k \in DOMAIN hs : m >= hs[k]

\* bitfield_data = data[pos:pos+bitfield_length], seen once pos is behind it
bitfield_data == Slice(data, pos - result.height_bitfield_length, pos)

\* the ten bits taken from the most significant end of each byte
RECURSIVE ColumnValue_MsbFirst(_, _, _)
ColumnValue_MsbFirst(bf, bit_index, bit) ==
    IF bit = HEIGHT_BITS THEN 0
    ELSE LET byte_idx == (bit_index + bit) \div 8
             bit_offset == 7 - ((bit_index + bit) % 8)
         IN  (IF byte_idx < Len(bf)
              THEN ((bf[byte_idx + 1] \div (2 ^ bit_offset)) % 2) * (2 ^ bit)
              ELSE 0)
             + ColumnValue_MsbFirst(bf, bit_index, bit + 1)

\* for bit in range(10): value |= ((bitfield_data[byte_idx] >> bit_offset) & 1) << bit
\* where byte_idx < len(bitfield_data); the bits from number bit on
RECURSIVE ColumnValue(_, _, _)
ColumnValue(bf, bit_index, bit) ==
    IF bit = HEIGHT_BITS THEN 0
    ELSE LET byte_idx == (bit_index + bit) \div 8
             bit_offset == (bit_index + bit) % 8
         IN  (IF byte_idx < Len(bf)
              THEN ((bf[byte_idx + 1] \div (2 ^ bit_offset)) % 2) * (2 ^ bit)
              ELSE 0)
             + ColumnValue(bf, bit_index, bit + 1)

\* a height for every index, the palette's last for an index behind it
ActualHeight_Clamped(value, palette) ==
    IF value < Len(palette) THEN palette[value + 1]
    ELSE IF palette = <<>> THEN 0 ELSE palette[Len(palette)]

\* heights_palette[value] if value < len(heights_palette) else -1
ActualHeight(value, palette) ==
    IF value < Len(palette) THEN palette[value + 1] ELSE -1

Heightmap_Enter ==
    /\ dec = "heightmap" /\ pc = "call"
    /\ IF "Data" \notin doc.keys
       THEN result' = [status |-> "no_data"] /\ pc' = "returned"
       ELSE /\ result' = IF "Version" \in doc.keys THEN [version |-> doc.Version]
                         ELSE EmptyDict
            /\ pc' = "needs_physics"
    /\ pos' = 0
    /\ UNCHANGED <<err, dec, doc, entries, heightmapVars, regionVars>>
    /\ UNCHANGED <<callVars, workerVars, colourVars>>

Heightmap_NeedsPhysics ==
    /\ dec = "heightmap" /\ pc = "needs_physics"
    /\ IF ~InRange(data, pos)
       THEN Raise("IndexError") /\ UNCHANGED <<pos, result>>
       ELSE /\ result' = [needs_physics |-> data[pos + 1] # 0] @@ result
            /\ pos' = pos + 1
            /\ pc' = "palette_count"
            /\ UNCHANGED err
    /\ UNCHANGED <<dec, doc, entries, heightmapVars, regionVars>>
    /\ UNCHANGED <<callVars, workerVars, colourVars>>

\* a palette list that is not emptied: one list for all calls
Heightmap_PaletteCount_KeepPalette ==
    /\ dec = "heightmap" /\ pc = "palette_count"
    /\ IF Len(Slice(data, pos, pos + 2)) < 2
       THEN Raise("struct.error") /\ UNCHANGED <<pos, palette_count>>
       ELSE /\ palette_count' = U16LE(Slice(data, pos, pos + 2))
            /\ pos' = pos + 2
            /\ pc' = "height"
            /\ UNCHANGED err
    /\ UNCHANGED <<dec, doc, result, entries, heights_palette, sample_heights, regionVars>>
    /\ UNCHANGED <<callVars, workerVars, colourVars>>

Heightmap_PaletteCount ==
    /\ dec = "heightmap" /\ pc = "palette_count"
    /\ IF Len(Slice(data, pos, pos + 2)) < 2
       THEN Raise("struct.error") /\ UNCHANGED <<pos, palette_count, heights_palette>>
       ELSE /\ palette_count' = U16LE(Slice(data, pos, pos + 2))
            /\ pos' = pos + 2
            /\ heights_palette' = <<>>
            /\ pc' = "height"
            /\ UNCHANGED err
    /\ UNCHANGED <<dec, doc, result, entries, sample_heights, regionVars>>
    /\ UNCHANGED <<callVars, workerVars, colourVars>>

Heightmap_Height ==
    /\ dec = "heightmap" /\ pc = "height"
    /\ Len(heights_palette) < palette_count
    /\ IF Len(Slice(data, pos, pos + 2)) < 2
       THEN Raise("struct.error") /\ UNCHANGED <<pos, heights_palette>>
       ELSE /\ heights_palette' = Append(heights_palette, S16LE(Slice(data, pos, pos + 2)))
            /\ pos' = pos + 2
            /\ UNCHANGED <<pc, err>>
    /\ UNCHANGED <<dec, doc, result, entries, palette_count, sample_heights, regionVars>>
    /\ UNCHANGED <<callVars, workerVars, colourVars>>

Heightmap_Palette ==
    /\ dec = "heightmap" /\ pc = "height"
    /\ Len(heights_palette) = palette_count
    /\ result' = [height_palette_count |-> palette_count,
                  height_palette_values |->
                      SubSeq(heights_palette, 1, Min2(SAMPLE_LIMIT, Len(heights_palette))),
                  height_min |-> IF heights_palette # <<>> THEN SeqMin(heights_palette)
                                 ELSE None,
                  height_max |-> IF heights_palette # <<>> THEN SeqMax(heights_palette)
                                 ELSE None]
                 @@ result
    /\ pc' = "bitfield_length"
    /\ UNCHANGED <<err, dec, doc, pos, entries, heightmapVars, regionVars>>
    /\ UNCHANGED <<callVars, workerVars, colourVars>>

Heightmap_BitfieldLength ==
    /\ dec = "heightmap" /\ pc = "bitfield_length"
    /\ IF Len(Slice(data, pos, pos + 4)) < 4
       THEN Raise("struct.error") /\ UNCHANGED <<pos, result>>
       ELSE /\ result' = [height_bitfield_length |-> U32LE(Slice(data, pos, pos + 4))]
                         @@ result
            /\ pos' = pos + 4
            /\ pc' = "bitfield_data"
            /\ UNCHANGED err
    /\ UNCHANGED <<dec, doc, entries, heightmapVars, regionVars>>
    /\ UNCHANGED <<callVars, workerVars, colourVars>>

\* bitfield_data = data[pos:pos+bitfield_length]; sample_heights = []
Heightmap_BitfieldData ==
    /\ dec = "heightmap" /\ pc = "bitfield_data"
    /\ pos' = pos + result.height_bitfield_length
    /\ sample_heights' = <<>>
    /\ pc' = "column"
    /\ UNCHANGED <<err, dec, doc, result, entries, palette_count, heights_palette,
                   regionVars>>
    /\ UNCHANGED <<callVars, workerVars, colourVars>>

\* one turn of "for col_idx in range(min(64, 1024))"
Heightmap_Column ==
    /\ dec = "heightmap" /\ pc = "column"
    /\ Len(sample_heights) < SAMPLE_COLUMNS
    /\ LET col_idx == Len(sample_heights)
           value == ColumnValue(bitfield_data, col_idx * HEIGHT_BITS, 0)
       IN  sample_heights' =
               Append(sample_heights,
                      [x |-> col_idx % 32, z |-> col_idx \div 32, palette_idx |-> value,
                       height |-> ActualHeight(value, heights_palette)])
    /\ UNCHANGED <<pc, err, sectionVars, palette_count, heights_palette, regionVars>>
    /\ UNCHANGED <<callVars, workerVars, colourVars>>

Heightmap_Return ==
    /\ dec = "heightmap" /\ pc = "column"
    /\ Len(sample_heights) = SAMPLE_COLUMNS
    /\ result' = [sample_heights |-> SubSeq(sample_heights, 1, SAMPLE_LIMIT)] @@ result
    /\ pc' = "returned"
    /\ UNCHANGED <<err, dec, doc, pos, entries, heightmapVars, regionVars>>
    /\ UNCHANGED <<callVars, workerVars, colourVars>>

-----------------------------------------------------------------------------
(* The region file: compare_chunks.py read_region_header, read_blob_index,   *)
(* read_chunk and analyze_region, and the same steps inline in               *)
(* check_levels.py.  prog = "read_chunk" is read_chunk called on its own for *)
(* any slot of the index of an open file.                                    *)

\* b"HytaleIndexedStorage"
MAGIC_STRING ==
    <<72, 121, 116, 97, 108, 101, 73, 110, 100, 101, 120, 101, 100,
      83, 116, 111, 114, 97, 103, 101>>
MAGIC_LENGTH == 20
HEADER_LENGTH == 32
CHUNK_LIMIT == 3

headerVars == <<version, blob_count, segment_size, blob_indices>>
blobVars == <<position, src_length, compressed_length, compressed_data, raw_data>>
fileVars == <<prog, file, file_exists>>

\* f.read(n) with the handle at p: the bytes there are, at most n
Read(f, p, n) == IF p >= Len(f) THEN <<>> ELSE Slice(f, p, p + n)

\* struct.unpack(">I", f.read(4))[0] with the handle at p
ReadU32(f, p) ==
    LET bs == Read(f, p, 4) IN
    IF Len(bs) < 4 THEN [err |-> "struct.error", pos |-> p + Len(bs)]
    ELSE [err |-> "", val |-> U32BE(bs), pos |-> p + 4]

\* version, blob_count, segment_size read with the handle at p
ReadHeaderFields(f, p) ==
    LET v == ReadU32(f, p) IN
    IF v.err # "" THEN v
    ELSE LET b == ReadU32(f, v.pos) IN
         IF b.err # "" THEN b
         ELSE LET sz == ReadU32(f, b.pos) IN
              IF sz.err # "" THEN sz
              ELSE [err |-> "", version |-> v.val, blob_count |-> b.val,
                    segment_size |-> sz.val, pos |-> sz.pos]

\* read_region_header(f) with the handle at p
read_region_header(f, p) ==
    LET magic == Read(f, p, MAGIC_LENGTH) IN
    IF magic # MAGIC_STRING THEN [err |-> "ValueError", pos |-> p + Len(magic)]
    ELSE ReadHeaderFields(f, p + Len(magic))

\* check_levels.py: magic = f.read(20), and the three fields
CL_read_header(f, p) == ReadHeaderFields(f, p + Len(Read(f, p, 20)))

\* read_blob_index(f, blob_count) with the handle at p: n reads of four
\* bytes, one behind the other; the first read the file has no four bytes
\* for raises struct.error.  whole is the number of reads before that one.
read_blob_index(f, p, n) ==
    LET whole == IF Len(f) <= p THEN 0 ELSE Min2(n, (Len(f) - p) \div 4) IN
    IF whole = n
    THEN [err |-> "", indices |-> [k \in 1..n |-> ReadU32(f, p + 4 * (k - 1)).val],
          pos |-> p + 4 * n]
    ELSE ReadU32(f, p + 4 * whole)

\* the offset of a blob taken from the index entry itself
Position_FromEntry(blob_index_entry, count, size) ==
    (HEADER_LENGTH + count * 4) + blob_index_entry * size

\* segments_base + (blob_index_entry - 1) * segment_size
Position(blob_index_entry, count, size) ==
    (HEADER_LENGTH + count * 4) + (blob_index_entry - 1) * size

\* check_levels.py: pos = segments_base + (fs - 1) * segment_size
CL_Position(fs, count, size) == (HEADER_LENGTH + count * 4) + (fs - 1) * size

\* zstd frames of one kind are told from all other bytes: magic number,
\* Single_Segment with a 1-byte Frame_Content_Size n, and one raw last block
\* of n bytes
IsRawFrame(c) ==
    /\ Len(c) >= 9
    /\ SubSeq(c, 1, 5) = <<40, 181, 47, 253, 32>>
    /\ Len(c) = 9 + c[6]
    /\ SubSeq(c, 7, 9) = <<(8 * c[6] + 1) % 256, (8 * c[6] + 1) \div 256, 0>>

\* dctx.decompress(compressed_data, max_output_size=src_length): what it may
\* give.  A frame that states a content size above max_output_size is
\* refused or decompressed, as the library decides.
Decompress(c, max_output_size) ==
    IF ~IsRawFrame(c) THEN { [err |-> "ZstdError"] }
    ELSE { [err |-> "", out |-> SubSeq(c, 10, Len(c))] }
         \cup (IF c[6] > max_output_size THEN { [err |-> "ZstdError"] } ELSE {})

\* the BSON of {} and of {"Components": {}}
EmptyDocBytes == <<5, 0, 0, 0, 0>>
ComponentsDocBytes ==
    <<22, 0, 0, 0, 3, 67, 111, 109, 112, 111, 110, 101, 110, 116, 115, 0>>
    \o EmptyDocBytes \o <<0>>

\* a chunk document: its top-level keys and the keys of its "Components"
NoDoc == [keys |-> {}, Components |-> {}]

\* bson.decode(raw), of these two documents and of bytes that are no BSON
BsonDecode(raw) ==
    CASE raw = EmptyDocBytes -> [err |-> "", doc |-> [keys |-> {}, Components |-> {}]]
      [] raw = ComponentsDocBytes ->
             [err |-> "", doc |-> [keys |-> {"Components"}, Components |-> {}]]
      [] OTHER -> [err |-> "InvalidBSON"]

\* an exception that leaves the handle as it is
Crash_KeepOpen(e) == Raise(e) /\ UNCHANGED f_open

\* an exception leaves the "with open(...) as f" block: f is closed
Crash(e) == Raise(e) /\ f_open' = FALSE

\* an exception inside read_chunk or the chunk's analysis: caught by the try
\* of analyze_region, not caught in check_levels.py
Except(e) ==
    CASE prog = "analyze_region" -> pc' = "except" /\ err' = e /\ UNCHANGED f_open
      [] prog = "check_levels" -> Crash(e)
      [] OTHER -> Raise(e) /\ UNCHANGED f_open

AR_Open ==
    /\ prog \in {"analyze_region", "read_chunk"} /\ pc = "start"
    /\ IF ~file_exists
       THEN pc' = "done" /\ UNCHANGED f_open
       ELSE pc' = "header" /\ f_open' = TRUE
    /\ UNCHANGED <<err, f_pos, fileVars, headerVars, blobVars, blob_idx,
                   chunks_analyzed, chunk_doc, sectionVars, heightmapVars>>
    /\ UNCHANGED <<callVars, workerVars, colourVars>>

AR_ReadHeader ==
    /\ prog \in {"analyze_region", "read_chunk"} /\ pc = "header"
    /\ LET r == read_region_header(file, f_pos) IN
       /\ f_pos' = r.pos
       /\ IF r.err # ""
          THEN Crash(r.err) /\ UNCHANGED <<version, blob_count, segment_size>>
          ELSE /\ version' = r.version
               /\ blob_count' = r.blob_count
               /\ segment_size' = r.segment_size
               /\ pc' = "blob_index"
               /\ UNCHANGED <<err, f_open>>
    /\ UNCHANGED <<fileVars, blob_indices, blobVars, blob_idx, chunks_analyzed,
                   chunk_doc, sectionVars, heightmapVars>>
    /\ UNCHANGED <<callVars, workerVars, colourVars>>

AR_ReadBlobIndex ==
    /\ prog \in {"analyze_region", "read_chunk"} /\ pc = "blob_index"
    /\ LET r == read_blob_index(file, f_pos, blob_count) IN
       /\ f_pos' = r.pos
       /\ IF r.err # ""
          THEN Crash(r.err) /\ UNCHANGED <<blob_indices, blob_idx, chunks_analyzed>>
          ELSE /\ blob_indices' = r.indices
               /\ blob_idx' = 0
               /\ chunks_analyzed' = 0
               /\ pc' = IF prog = "analyze_region" THEN "loop" ELSE "call"
               /\ UNCHANGED <<err, f_open>>
    /\ UNCHANGED <<fileVars, version, blob_count, segment_size, blobVars,
                   chunk_doc, sectionVars, heightmapVars>>
    /\ UNCHANGED <<callVars, workerVars, colourVars>>

\* local_x = blob_idx % 32, local_z = blob_idx // 32
LocalX(slot) == slot % 32
LocalZ(slot) == slot \div 32

\* check_levels.py: local_x = bi % 32, local_z = bi // 32
CL_LocalX(bi) == bi % 32
CL_LocalZ(bi) == bi \div 32

\* for blob_idx, first_segment in enumerate(blob_indices): skip, break or read
AR_Loop ==
    /\ prog = "analyze_region" /\ pc = "loop"
    /\ IF blob_idx >= Len(blob_indices)
       THEN pc' = "done" /\ f_open' = FALSE /\ UNCHANGED blob_idx
       ELSE IF blob_indices[blob_idx + 1] = 0
       THEN blob_idx' = blob_idx + 1 /\ UNCHANGED <<pc, f_open>>
       ELSE IF chunks_analyzed >= CHUNK_LIMIT
       THEN pc' = "done" /\ f_open' = FALSE /\ UNCHANGED blob_idx
       ELSE pc' = "locate" /\ UNCHANGED <<blob_idx, f_open>>
    /\ UNCHANGED <<err, f_pos, fileVars, headerVars, blobVars, chunks_analyzed,
                   chunk_doc, sectionVars, heightmapVars>>
    /\ UNCHANGED <<callVars, workerVars, colourVars>>

\* read_chunk(f, blob_indices[slot], blob_count, segment_size) for any slot
RC_Call ==
    /\ prog = "read_chunk" /\ pc = "call"
    /\ \E slot \in 0..(Len(blob_indices) - 1) : blob_idx' = slot
    /\ pc' = "locate"
    /\ UNCHANGED <<err, f_open, f_pos, fileVars, headerVars, blobVars,
                   chunks_analyzed, chunk_doc, sectionVars, heightmapVars>>
    /\ UNCHANGED <<callVars, workerVars, colourVars>>

\* read_chunk without f.seek(position): the reads start where the handle is
RC_Locate_NoSeek ==
    /\ prog \in {"analyze_region", "read_chunk"} /\ pc = "locate"
    /\ IF blob_indices[blob_idx + 1] = 0
       THEN pc' = "chunk_none" /\ UNCHANGED <<position, f_pos>>
       ELSE /\ position' = Position(blob_indices[blob_idx + 1], blob_count, segment_size)
            /\ pc' = "blob_header"
            /\ UNCHANGED f_pos
    /\ UNCHANGED <<err, f_open, fileVars, headerVars, src_length, compressed_length,
                   compressed_data, raw_data, blob_idx, chunks_analyzed, chunk_doc,
                   sectionVars, heightmapVars>>
    /\ UNCHANGED <<callVars, workerVars, colourVars>>

\* read_chunk: None for the entry 0, else f.seek(position)
RC_Locate ==
    /\ prog \in {"analyze_region", "read_chunk"} /\ pc = "locate"
    /\ IF blob_indices[blob_idx + 1] = 0
       THEN pc' = "chunk_none" /\ UNCHANGED <<position, f_pos>>
       ELSE /\ position' = Position(blob_indices[blob_idx + 1], blob_count, segment_size)
            /\ f_pos' = position'
            /\ pc' = "blob_header"
    /\ UNCHANGED <<err, f_open, fileVars, headerVars, src_length, compressed_length,
                   compressed_data, raw_data, blob_idx, chunks_analyzed, chunk_doc,
                   sectionVars, heightmapVars>>
    /\ UNCHANGED <<callVars, workerVars, colourVars>>

\* src_length and compressed_length (src_len, comp_len in check_levels.py)
RC_BlobHeader ==
    /\ prog # "none" /\ pc = "blob_header"
    /\ LET src == ReadU32(file, f_pos) IN
       IF src.err # ""
       THEN /\ f_pos' = src.pos
            /\ Except(src.err)
            /\ UNCHANGED <<src_length, compressed_length>>
       ELSE LET cl == ReadU32(file, src.pos) IN
            /\ src_length' = src.val
            /\ f_pos' = cl.pos
            /\ IF cl.err # ""
               THEN Except(cl.err) /\ UNCHANGED compressed_length
               ELSE /\ compressed_length' = cl.val
                    /\ pc' = "blob_data"
                    /\ UNCHANGED <<err, f_open>>
    /\ UNCHANGED <<fileVars, headerVars, position, compressed_data, raw_data,
                   blob_idx, chunks_analyzed, chunk_doc, sectionVars, heightmapVars>>
    /\ UNCHANGED <<callVars, workerVars, colourVars>>

\* compressed_data = f.read(compressed_length)
RC_BlobData ==
    /\ prog # "none" /\ pc = "blob_data"
    /\ compressed_data' = Read(file, f_pos, compressed_length)
    /\ f_pos' = f_pos + Len(compressed_data')
    /\ pc' = "decompress"
    /\ UNCHANGED <<err, f_open, fileVars, headerVars, position, src_length,
                   compressed_length, raw_data, blob_idx, chunks_analyzed, chunk_doc,
                   sectionVars, heightmapVars>>
    /\ UNCHANGED <<callVars, workerVars, colourVars>>

RC_Decompress ==
    /\ prog # "none" /\ pc = "decompress"
    /\ \E r \in Decompress(compressed_data, src_length) :
           IF r.err # ""
           THEN Except(r.err) /\ UNCHANGED raw_data
           ELSE /\ raw_data' = r.out
                /\ pc' = "chunk_returned"
                /\ UNCHANGED <<err, f_open>>
    /\ UNCHANGED <<f_pos, fileVars, headerVars, position, src_length,
                   compressed_length, compressed_data, blob_idx, chunks_analyzed,
                   chunk_doc, sectionVars, heightmapVars>>
    /\ UNCHANGED <<callVars, workerVars, colourVars>>

\* the rest of the try block: "Empty chunk" and continue, or parse_bson_chunk
\* and the analysis of the components; then chunks_analyzed += 1.  The chunk
\* documents here have no BlockChunk, ChunkColumn or EntityChunk component;
\* the decoders those are handed to run under HeightmapSpec and SectionSpec.
AR_Chunk ==
    /\ prog = "analyze_region" /\ pc \in {"chunk_none", "chunk_returned"}
    /\ IF pc = "chunk_none"
       THEN /\ blob_idx' = blob_idx + 1
            /\ pc' = "loop"
            /\ UNCHANGED <<err, chunk_doc, chunks_analyzed>>
       ELSE LET r == BsonDecode(raw_data) IN
            IF r.err # ""
            THEN /\ pc' = "except" /\ err' = r.err
                 /\ UNCHANGED <<chunk_doc, blob_idx, chunks_analyzed>>
            ELSE /\ chunk_doc' = r.doc
                 /\ chunks_analyzed' = chunks_analyzed + 1
                 /\ blob_idx' = blob_idx + 1
                 /\ pc' = "loop"
                 /\ UNCHANGED err
    /\ UNCHANGED <<f_open, f_pos, fileVars, headerVars, blobVars, sectionVars,
                   heightmapVars>>
    /\ UNCHANGED <<callVars, workerVars, colourVars>>

\* a handler that does not count the chunk that failed
AR_Except_NoCount ==
    /\ prog = "analyze_region" /\ pc = "except"
    /\ err' = ""
    /\ blob_idx' = blob_idx + 1
    /\ pc' = "loop"
    /\ UNCHANGED <<f_open, f_pos, fileVars, headerVars, blobVars, chunk_doc,
                   chunks_analyzed, sectionVars, heightmapVars>>
    /\ UNCHANGED <<callVars, workerVars, colourVars>>

\* except Exception as e: print, and chunks_analyzed += 1
AR_Except ==
    /\ prog = "analyze_region" /\ pc = "except"
    /\ err' = ""
    /\ chunks_analyzed' = chunks_analyzed + 1
    /\ blob_idx' = blob_idx + 1
    /\ pc' = "loop"
    /\ UNCHANGED <<f_open, f_pos, fileVars, headerVars, blobVars, chunk_doc,
                   sectionVars, heightmapVars>>
    /\ UNCHANGED <<callVars, workerVars, colourVars>>

\* check_levels.py: os.path.getsize(path), open(path, 'rb')
CLM_Open ==
    /\ prog = "check_levels" /\ pc = "start"
    /\ IF ~file_exists
       THEN Raise("FileNotFoundError") /\ UNCHANGED f_open
       ELSE pc' = "header" /\ f_open' = TRUE /\ UNCHANGED err
    /\ UNCHANGED <<f_pos, fileVars, headerVars, blobVars, blob_idx,
                   chunks_analyzed, chunk_doc, sectionVars, heightmapVars>>
    /\ UNCHANGED <<callVars, workerVars, colourVars>>

CLM_ReadHeader ==
    /\ prog = "check_levels" /\ pc = "header"
    /\ LET r == CL_read_header(file, f_pos) IN
       /\ f_pos' = r.pos
       /\ IF r.err # ""
          THEN Crash(r.err) /\ UNCHANGED <<version, blob_count, segment_size>>
          ELSE /\ version' = r.version
               /\ blob_count' = r.blob_count
               /\ segment_size' = r.segment_size
               /\ pc' = "blob_index"
               /\ UNCHANGED <<err, f_open>>
    /\ UNCHANGED <<fileVars, blob_indices, blobVars, blob_idx, chunks_analyzed,
                   chunk_doc, sectionVars, heightmapVars>>
    /\ UNCHANGED <<callVars, workerVars, colourVars>>

\* indices = [struct.unpack('>I', f.read(4))[0] for _ in range(blob_count)]
CLM_ReadIndices ==
    /\ prog = "check_levels" /\ pc = "blob_index"
    /\ LET r == read_blob_index(file, f_pos, blob_count) IN
       /\ f_pos' = r.pos
       /\ IF r.err # ""
          THEN Crash(r.err) /\ UNCHANGED <<blob_indices, blob_idx>>
          ELSE /\ blob_indices' = r.indices
               /\ blob_idx' = 0
               /\ pc' = "loop"
               /\ UNCHANGED <<err, f_open>>
    /\ UNCHANGED <<fileVars, version, blob_count, segment_size, blobVars,
                   chunks_analyzed, chunk_doc, sectionVars, heightmapVars>>
    /\ UNCHANGED <<callVars, workerVars, colourVars>>

\* for bi, fs in enumerate(indices): if fs == 0: continue; f.seek(pos)
CLM_Loop ==
    /\ prog = "check_levels" /\ pc = "loop"
    /\ IF blob_idx >= Len(blob_indices)
       THEN pc' = "done" /\ f_open' = FALSE /\ UNCHANGED <<blob_idx, position, f_pos>>
       ELSE IF blob_indices[blob_idx + 1] = 0
       THEN blob_idx' = blob_idx + 1 /\ UNCHANGED <<pc, f_open, position, f_pos>>
       ELSE /\ position' = CL_Position(blob_indices[blob_idx + 1], blob_count, segment_size)
            /\ f_pos' = position'
            /\ pc' = "blob_header"
            /\ UNCHANGED <<blob_idx, f_open>>
    /\ UNCHANGED <<err, fileVars, headerVars, src_length, compressed_length,
                   compressed_data, raw_data, chunks_analyzed, chunk_doc,
                   sectionVars, heightmapVars>>
    /\ UNCHANGED <<callVars, workerVars, colourVars>>

\* doc = bson.decode(raw); cc = doc['Components'].get('ChunkColumn', {});
\* no 'Sections' in cc: break.  (With sections, the body of the section loop
\* runs under SectionSpec, and the loop over the chunks ends at "break".)
CLM_Chunk ==
    /\ prog = "check_levels" /\ pc = "chunk_returned"
    /\ LET r == BsonDecode(raw_data) IN
       IF r.err # ""
       THEN Crash(r.err) /\ UNCHANGED chunk_doc
       ELSE /\ chunk_doc' = r.doc
            /\ IF "Components" \notin r.doc.keys
               THEN Crash("KeyError")
               ELSE pc' = "done" /\ f_open' = FALSE /\ UNCHANGED err
    /\ UNCHANGED <<f_pos, fileVars, headerVars, blobVars, blob_idx, chunks_analyzed,
                   sectionVars, heightmapVars>>
    /\ UNCHANGED <<callVars, workerVars, colourVars>>

-----------------------------------------------------------------------------
(* read_chunk called by two workers at the same time, each for its own slot *)
(* of the index, through a handle of its own or through one shared handle.  *)
(* f.seek and each f.read is one step of a worker: a call on a file object  *)
(* is not interrupted by another thread's call on it, the calls of          *)
(* read_chunk lines 50-53 are interleaved freely.                           *)

Workers == {1, 2}

\* worker w goes on, its locals changed to the record me
Step(w, me) == workers' = [workers EXCEPT ![w] = me]

\* struct.error in a worker
WorkerRaise(w, e) == Step(w, [workers[w] EXCEPT !.pc = "raised", !.err = e])

\* position = segments_base + (blob_index_entry - 1) * segment_size; f.seek(position)
W_Seek(w) ==
    /\ prog = "workers" /\ workers[w].pc = "locate"
    /\ LET p == Position(blob_indices[workers[w].slot + 1], blob_count, segment_size) IN
       /\ handles' = [handles EXCEPT ![workers[w].handle] = p]
       /\ Step(w, [workers[w] EXCEPT !.position = p, !.pc = "src_length"])
    /\ UNCHANGED <<pc, err, sectionVars, heightmapVars, regionVars, callVars, colourVars>>

\* the first read leaving the handle where it was
W_SrcLength_NoAdvance(w) ==
    /\ prog = "workers" /\ workers[w].pc = "src_length"
    /\ LET r == ReadU32(file, handles[workers[w].handle]) IN
       /\ IF r.err # "" THEN WorkerRaise(w, r.err)
          ELSE Step(w, [workers[w] EXCEPT !.src_length = r.val, !.pc = "compressed_length"])
    /\ UNCHANGED <<handles, pc, err, sectionVars, heightmapVars, regionVars, callVars, colourVars>>

\* src_length = struct.unpack(">I", f.read(4))[0]
W_SrcLength(w) ==
    /\ prog = "workers" /\ workers[w].pc = "src_length"
    /\ LET r == ReadU32(file, handles[workers[w].handle]) IN
       /\ handles' = [handles EXCEPT ![workers[w].handle] = r.pos]
       /\ IF r.err # "" THEN WorkerRaise(w, r.err)
          ELSE Step(w, [workers[w] EXCEPT !.src_length = r.val, !.pc = "compressed_length"])
    /\ UNCHANGED <<pc, err, sectionVars, heightmapVars, regionVars, callVars, colourVars>>

\* compressed_length = struct.unpack(">I", f.read(4))[0]
W_CompressedLength(w) ==
    /\ prog = "workers" /\ workers[w].pc = "compressed_length"
    /\ LET r == ReadU32(file, handles[workers[w].handle]) IN
       /\ handles' = [handles EXCEPT ![workers[w].handle] = r.pos]
       /\ IF r.err # "" THEN WorkerRaise(w, r.err)
          ELSE Step(w, [workers[w] EXCEPT !.compressed_length = r.val, !.pc = "blob_data"])
    /\ UNCHANGED <<pc, err, sectionVars, heightmapVars, regionVars, callVars, colourVars>>

\* compressed_data = f.read(compressed_length)
W_BlobData(w) ==
    /\ prog = "workers" /\ workers[w].pc = "blob_data"
    /\ LET bs == Read(file, handles[workers[w].handle], workers[w].compressed_length) IN
       /\ handles' = [handles EXCEPT ![workers[w].handle] = @ + Len(bs)]
       /\ Step(w, [workers[w] EXCEPT !.compressed_data = bs, !.pc = "decompress"])
    /\ UNCHANGED <<pc, err, sectionVars, heightmapVars, regionVars, callVars, colourVars>>

-----------------------------------------------------------------------------
(* Section buffers the decoders are run on *)

MaxEntries == 2

BE16(n) == <<n \div 256, n % 256>>

\* run-length encodings: of the bytes bs, of n bytes b, and of n bytes that
\* are all b except byte number p (1-based, 0 for none), which is a
Lit(bs) == [k \in 1..Len(bs) |-> <<bs[k], 1>>]
Run(b, n) == IF n > 0 THEN << <<b, n>> >> ELSE <<>>
Fill(n, b, p, a) ==
    IF p = 0 THEN Run(b, n) ELSE Run(b, p - 1) \o Run(a, 1) \o Run(b, n - p)

\* the first n bytes of a run-length encoded buffer
RECURSIVE Take(_, _)
Take(runs, n) ==
    IF n = 0 \/ runs = <<>> THEN <<>>
    ELSE IF Head(runs)[2] >= n THEN Run(Head(runs)[1], n)
    ELSE <<Head(runs)>> \o Take(Tail(runs), n - Head(runs)[2])

EncEntry(id, name, count) == Lit(<<id>> \o BE16(Len(name)) \o name \o BE16(count))

\* "W", "e-acute" (two bytes, one character), and a name that is not UTF-8
EntryChoices ==
    { EncEntry(0, <<87>>, 0), EncEntry(7, <<195, 169>>, 258), EncEntry(1, <<255>>, 1) }

RECURSIVE TablesOfLen(_)
TablesOfLen(n) ==
    IF n = 0 THEN { <<>> }
    ELSE { t \o e : t \in TablesOfLen(n - 1), e \in EntryChoices }

\* entryCount and the entries it announces
Tables == UNION { { Lit(BE16(n)) \o t : t \in TablesOfLen(n) } : n \in 0..MaxEntries }

OneEntryTable == Lit(BE16(1)) \o EncEntry(0, <<87>>, 0)

\* the voxel array of each palette type of the format (spec section 4.4)
VoxelArrays(palette_type) ==
    CASE palette_type = 1 ->
             { Fill(NIBBLE_ARRAY_BYTES, 0, 0, 0), Fill(NIBBLE_ARRAY_BYTES, 0, 1, 165),
               Fill(NIBBLE_ARRAY_BYTES, 0, 12346, 165),
               Fill(NIBBLE_ARRAY_BYTES, 16, NIBBLE_ARRAY_BYTES, 15) }
      [] palette_type = 2 ->
             { Fill(BYTE_ARRAY_BYTES, 0, 0, 0), Fill(BYTE_ARRAY_BYTES, 0, 2, 200) }
      [] palette_type = 3 -> { Fill(2 * VOXELS, 0, 2, 1) }
      [] OTHER -> { <<>> }

\* hasLevels and the level array
LevelTails ==
    { Lit(<<0>>), Lit(<<0, 9>>), Lit(<<2>>) \o Fill(NIBBLE_ARRAY_BYTES, 0, 0, 0) }
    \cup { Lit(<<1>>) \o Fill(NIBBLE_ARRAY_BYTES, b, 1, 165) : b \in {0, 33} }
    \cup { Lit(<<1>>) \o Fill(NIBBLE_ARRAY_BYTES, 0, 12346, 165) }

EmptyBufs == { Lit(<<0>>), Lit(<<0, 0>>), Lit(<<0, 1>>), Lit(<<0, 0, 1, 0, 0>>) }

TableBufs ==
    { Lit(<<t>>) \o tab \o Fill(NIBBLE_ARRAY_BYTES, 0, 0, 0) \o Lit(<<0>>)
        : t \in {1, 7}, tab \in Tables }

VoxelBufs ==
    UNION { { Lit(<<t>>) \o OneEntryTable \o v \o l : v \in VoxelArrays(t), l \in LevelTails }
            : t \in {1, 2, 3} }

\* a full HALF_BYTE section with levels, and what is left of it when the
\* buffer ends early
FullBuf ==
    Lit(<<1>>) \o OneEntryTable \o Fill(NIBBLE_ARRAY_BYTES, 0, 1, 165)
               \o Lit(<<1>>) \o Fill(NIBBLE_ARRAY_BYTES, 0, 1, 165)

CutLengths ==
    { 0, 1, 2, 3, 5, 7, 9, 9 + NIBBLE_ARRAY_BYTES - 1, 9 + NIBBLE_ARRAY_BYTES,
      9 + 2 * NIBBLE_ARRAY_BYTES }

CutBufs == { Take(FullBuf, n) : n \in CutLengths }

SectionBufs == EmptyBufs \cup TableBufs \cup VoxelBufs \cup CutBufs

MigrationVersion == Lit(<<0, 0, 0, 9>>)

\* A sub-document: the keys it has, and the values of "Data" and "Version"
\* (<<>> and 0 stand for a missing key and are never read then).
Doc(keys, d, v) == [keys |-> keys, Data |-> d, Version |-> v]

FluidDocs == { Doc({}, <<>>, 0) } \cup { Doc({"Data"}, d, 0) : d \in SectionBufs }

BlockDocs ==
    { Doc({}, <<>>, 0), Doc({"Version"}, <<>>, 6) }
    \cup { Doc({"Data"}, d, 0) : d \in SectionBufs }
    \cup { Doc({"Data", "Version"}, d, 5) : d \in EmptyBufs \cup TableBufs }
    \cup { Doc({"Data", "Version"}, MigrationVersion \o d, 6) : d \in SectionBufs }
    \cup { Doc({"Data", "Version"}, d, 6) : d \in EmptyBufs \cup CutBufs }

LevelsDocs ==
    { Doc({}, <<>>, 0), Doc({"Fluid"}, <<>>, 0), Doc({"Fluid", "Data"}, <<>>, 0) }
    \cup { Doc({"Fluid", "Data"}, d, 0) : d \in SectionBufs }

\* no heightmap is being decoded, no region file is being read
NoHeightmap == palette_count = -1 /\ heights_palette = <<>> /\ sample_heights = <<>>

NoRegion ==
    /\ prog = "none" /\ file = <<>> /\ file_exists = FALSE
    /\ f_open = FALSE /\ f_pos = 0
    /\ version = -1 /\ blob_count = -1 /\ segment_size = -1
    /\ blob_indices = <<>> /\ blob_idx = -1 /\ chunks_analyzed = -1
    /\ position = -1 /\ src_length = -1 /\ compressed_length = -1
    /\ compressed_data = <<>> /\ raw_data = <<>> /\ chunk_doc = NoDoc

\* no caller has made an earlier call, no worker runs
NoCalls == calls = <<>>
NoWorkers == workers = <<>> /\ handles = <<>>

\* generate_colors.py does not run
NoColours == all_colours = <<>> /\ used_colours = <<>> /\ terrain_name = 0 /\ colour = <<>>

SectionInit ==
    /\ dec \in {"fluid", "block", "levels"}
    /\ doc \in CASE dec = "fluid" -> FluidDocs
                [] dec = "block" -> BlockDocs
                [] dec = "levels" -> LevelsDocs
    /\ pos = 0
    /\ pc = "call"
    /\ err = ""
    /\ result = EmptyDict
    /\ entries = <<>>
    /\ NoHeightmap
    /\ NoRegion
    /\ NoCalls /\ NoWorkers /\ NoColours

analyze_fluid_section ==
    \/ Fluid_Enter
    \/ Fluid_PaletteType
    \/ Fluid_Empty
    \/ Fluid_EntryCount
    \/ Fluid_Entry
    \/ Fluid_Entries
    \/ Fluid_BlockData
    \/ Fluid_HasLevels
    \/ Fluid_LevelData

analyze_block_section ==
    \/ Block_Enter
    \/ Block_Migration
    \/ Block_PaletteType
    \/ Block_EntryCount
    \/ Block_Entry
    \/ Block_Entries

check_levels_section ==
    \/ CL_Enter
    \/ CL_EntryCount
    \/ CL_Entry
    \/ CL_SkipBlockData
    \/ CL_HasLevels
    \/ CL_Levels

SectionNext == analyze_fluid_section \/ analyze_block_section \/ check_levels_section

SectionSpec == SectionInit /\ [][SectionNext]_vars

-----------------------------------------------------------------------------
(* Heightmap buffers analyze_heightmap is run on *)

BITFIELD_BYTES == (1024 * HEIGHT_BITS) \div 8

LE16(n) == <<n % 256, n \div 256>>
LE32(n) == <<n % 256, (n \div 256) % 256, (n \div 65536) % 256, n \div 16777216>>

RECURSIVE EncHeights(_)
EncHeights(hs) ==
    IF hs = <<>> THEN <<>>
    ELSE LE16((Head(hs) + 65536) % 65536) \o EncHeights(Tail(hs))

HeightPalettes == { <<>>, <<-64, 0, 64, 128>>, <<-32768, 32767, -1>> }

\* bitfields of 1024 columns: all 0; column 0 is 1; columns 0..3 are 0..3;
\* column 1 is 1023, across three bytes; column 63 is 4 and column 64 is 3;
\* every column is 1023
Bitfields ==
    { Run(0, BITFIELD_BYTES),
      Fill(BITFIELD_BYTES, 0, 1, 1),
      Lit(<<0, 4, 32, 192>>) \o Run(0, BITFIELD_BYTES - 4),
      Lit(<<0, 252, 15>>) \o Run(0, BITFIELD_BYTES - 3),
      Run(0, 79) \o Lit(<<1, 3>>) \o Run(0, BITFIELD_BYTES - 81),
      Run(255, BITFIELD_BYTES) }

\* bitfieldLength and the bytes behind it: a whole bitfield, one that ends
\* early, none, and a short one with bytes behind it
BitfieldTails ==
    { Lit(LE32(BITFIELD_BYTES)) \o bf : bf \in Bitfields }
    \cup { Lit(LE32(BITFIELD_BYTES)) \o Lit(<<1>>),
           Lit(LE32(0)),
           Lit(LE32(2)) \o Lit(<<255, 255, 255>>) }

HeightmapBuf(needs_physics, hs, tail) ==
    Lit(<<needs_physics>> \o LE16(Len(hs)) \o EncHeights(hs)) \o tail

\* what is left of a heightmap when the buffer ends early
HeightmapCuts ==
    { Take(HeightmapBuf(1, <<-64, 0, 64, 128>>, Lit(LE32(BITFIELD_BYTES))), n)
        : n \in {0, 1, 2, 3, 4, 10, 11, 13, 14} }

HeightmapBufs ==
    { HeightmapBuf(np, hs, tail) : np \in {0, 1}, hs \in HeightPalettes, tail \in BitfieldTails }
    \cup HeightmapCuts

HeightmapDocs ==
    { Doc({}, <<>>, 0), Doc({"Version"}, <<>>, 3) }
    \cup { Doc({"Data"}, d, 0) : d \in HeightmapBufs }
    \cup { Doc({"Data", "Version"}, d, 3) : d \in HeightmapCuts }

HeightmapInit ==
    /\ dec = "heightmap"
    /\ doc \in HeightmapDocs
    /\ pos = 0
    /\ pc = "call"
    /\ err = ""
    /\ result = EmptyDict
    /\ entries = <<>>
    /\ NoHeightmap
    /\ NoRegion
    /\ NoCalls /\ NoWorkers /\ NoColours

analyze_heightmap ==
    \/ Heightmap_Enter
    \/ Heightmap_NeedsPhysics
    \/ Heightmap_PaletteCount
    \/ Heightmap_Height
    \/ Heightmap_Palette
    \/ Heightmap_BitfieldLength
    \/ Heightmap_BitfieldData
    \/ Heightmap_Column
    \/ Heightmap_Return

HeightmapNext == analyze_heightmap

HeightmapSpec == HeightmapInit /\ [][HeightmapNext]_vars

-----------------------------------------------------------------------------
(* A caller that decodes one sub-document after the other, as analyze_region *)
(* does for the BlockChunk and for the Block and Fluid of every section      *)

MaxCalls == 3

Decoders == {"fluid", "block", "heightmap"}

\* the sub-documents handed to each decoder: a full and an EMPTY Fluid
\* section, a Block section of Version 6, a heightmap with a palette
CallDocs(d) ==
    CASE d = "fluid" -> { Doc({"Data"}, FullBuf, 0), Doc({"Data"}, Lit(<<0, 1>>), 0) }
      [] d = "block" ->
             { Doc({"Data", "Version"}, MigrationVersion \o Lit(<<1>>) \o OneEntryTable, 6) }
      [] d = "heightmap" ->
             { Doc({"Data"},
                   HeightmapBuf(1, <<-64, 0, 64, 128>>,
                                Lit(LE32(BITFIELD_BYTES)) \o Fill(BITFIELD_BYTES, 0, 1, 1)),
                   0) }

\* what a call that has ended gave its caller: the dict returned or the
\* exception raised
Outcome == IF pc = "returned" THEN [returned |-> result] ELSE [raised |-> err]

CallerInit ==
    /\ dec \in Decoders /\ doc \in CallDocs(dec)
    /\ pos = 0 /\ pc = "call" /\ err = ""
    /\ result = EmptyDict /\ entries = <<>>
    /\ NoHeightmap /\ NoRegion
    /\ NoCalls /\ NoWorkers /\ NoColours

\* The call has ended and the caller makes the next one.  The locals of the
\* new call are unbound: here they hold what the last call left in them, or
\* what the first call of a run starts with.
NextCall ==
    /\ prog = "none" /\ dec \in Decoders /\ pc \in {"returned", "raised"}
    /\ Len(calls) < MaxCalls - 1
    /\ calls' = Append(calls, [dec |-> dec, doc |-> doc, outcome |-> Outcome])
    /\ \E d \in Decoders : \E nd \in CallDocs(d) : dec' = d /\ doc' = nd
    /\ pc' = "call" /\ err' = ""
    /\ \/ UNCHANGED <<pos, result, entries, heightmapVars>>
       \/ /\ pos' = 0 /\ result' = EmptyDict /\ entries' = <<>>
          /\ palette_count' = -1 /\ heights_palette' = <<>> /\ sample_heights' = <<>>
    /\ UNCHANGED <<regionVars, workerVars, colourVars>>

CallerNext ==
    \/ analyze_fluid_section
    \/ analyze_block_section
    \/ analyze_heightmap
    \/ NextCall

CallerSpec == CallerInit /\ [][CallerNext]_vars

-----------------------------------------------------------------------------
(* The Block and the Fluid decoder run on the same bytes, in the order in    *)
(* which analyze_region calls them for a section                             *)

\* a run-length encoded buffer without its first n bytes
RECURSIVE Drop(_, _)
Drop(runs, n) ==
    IF n = 0 \/ runs = <<>> THEN runs
    ELSE IF Head(runs)[2] > n THEN Run(Head(runs)[1], Head(runs)[2] - n) \o Tail(runs)
    ELSE Drop(Tail(runs), n - Head(runs)[2])

\* the Block sub-documents that have Data
PairDocs == { d \in BlockDocs : "Data" \in d.keys }

PairInit ==
    /\ dec = "block" /\ doc \in PairDocs
    /\ pos = 0 /\ pc = "call" /\ err = ""
    /\ result = EmptyDict /\ entries = <<>>
    /\ NoHeightmap /\ NoRegion
    /\ NoCalls /\ NoWorkers /\ NoColours

\* block_info = analyze_block_section(...) has ended; analyze_fluid_section is
\* called on a Fluid sub-document with the same Data bytes or, behind a Block
\* of Version >= 6, with the Data bytes that follow the migration version
FluidOnSameData ==
    /\ prog = "none" /\ dec = "block" /\ pc \in {"returned", "raised"}
    /\ calls = <<>>
    /\ calls' = <<[dec |-> dec, doc |-> doc, outcome |-> Outcome]>>
    /\ dec' = "fluid"
    /\ \/ doc' = Doc({"Data"}, doc.Data, 0)
       \/ /\ BlockVersion >= 6
          /\ doc' = Doc({"Data"}, Drop(doc.Data, 4), 0)
    /\ pos' = 0 /\ pc' = "call" /\ err' = ""
    /\ result' = EmptyDict /\ entries' = <<>>
    /\ UNCHANGED <<heightmapVars, regionVars, workerVars, colourVars>>

PairNext ==
    \/ analyze_block_section
    \/ analyze_fluid_section
    \/ FluidOnSameData

PairSpec == PairInit /\ [][PairNext]_vars

-----------------------------------------------------------------------------
(* generate_colors.py: the colours planned for the terrains, and the pass    *)
(* of main that makes them unique.  A colour string "0xrrggbb" is held as    *)
(* its six hex digits; a terrain is held as the number of its place in the   *)
(* order in which all_colours gets its keys.                                 *)

MaxTerrains == 3

\* f"{n:02x}" for n in 0..255
Hex2(n) == <<n \div 16, n % 16>>

\* f"0x{r:02x}{g:02x}{b:02x}"
FormatColour(r, g, b) == Hex2(r) \o Hex2(g) \o Hex2(b)

\* int(colour, 16)
ParseColour(c) == ((((c[1] * 16 + c[2]) * 16 + c[3]) * 16 + c[4]) * 16 + c[5]) * 16 + c[6]

\* max(0, min(255, n))
Clamp(n) == IF n < 0 THEN 0 ELSE IF n > 255 THEN 255 ELSE n

\* the body of the while loop: r + 3, g + 7, b - 5, each clamped
Nudge(c) ==
    LET val == ParseColour(c)
        r == (val \div 65536) % 256
        g == (val \div 256) % 256
        b == val % 256
    IN  FormatColour(Clamp(r + 3), Clamp(g + 7), Clamp(b - 5))

\* two of the manual overrides: "STONE": "0x808080" and "CHALK": "0xf8f8fa",
\* STONE being terrain 2 and CHALK terrain 4
MANUAL_COLOURS == (2 :> <<8, 0, 8, 0, 8, 0>>) @@ (4 :> <<15, 8, 15, 8, 15, 10>>)

\* what the category generators may give a terrain: 0x808080, 0x7d7985 (one
\* nudge before it), 0xffff00 and 0xfcf805 (one nudge before it)
GeneratedColours ==
    { <<8, 0, 8, 0, 8, 0>>, <<7, 13, 7, 9, 8, 5>>,
      <<15, 15, 15, 15, 0, 0>>, <<15, 12, 15, 8, 0, 5>> }

ColourInit ==
    /\ prog = "generate_colors" /\ pc = "categories" /\ err = ""
    /\ NoColours
    /\ dec = "none" /\ doc = Doc({}, <<>>, 0) /\ pos = 0
    /\ result = EmptyDict /\ entries = <<>>
    /\ NoHeightmap /\ NoCalls /\ NoWorkers
    /\ file = <<>> /\ file_exists = TRUE /\ f_open = FALSE /\ f_pos = 0
    /\ version = -1 /\ blob_count = -1 /\ segment_size = -1
    /\ blob_indices = <<>> /\ blob_idx = -1 /\ chunks_analyzed = -1
    /\ position = -1 /\ src_length = -1 /\ compressed_length = -1
    /\ compressed_data = <<>> /\ raw_data = <<>> /\ chunk_doc = NoDoc

ColourFrame == UNCHANGED <<err, sectionVars, heightmapVars, regionVars, callVars, workerVars>>

\* for cat_name, cat_info in CATEGORIES.items(): all_colours.update(colours),
\* with any colours for the terrains of the categories
GC_Categories ==
    /\ prog = "generate_colors" /\ pc = "categories"
    /\ \E n \in 1..MaxTerrains : all_colours' \in [1..n -> GeneratedColours]
    /\ pc' = "manual"
    /\ UNCHANGED <<used_colours, terrain_name, colour>>
    /\ ColourFrame

\* all_colours.update(MANUAL_COLOURS)
GC_Manual ==
    /\ prog = "generate_colors" /\ pc = "manual"
    /\ all_colours' = MANUAL_COLOURS @@ all_colours
    /\ pc' = "for"
    /\ UNCHANGED <<used_colours, terrain_name, colour>>
    /\ ColourFrame

\* for terrain_name in list(all_colours.keys()): colour = all_colours[terrain_name]
GC_For ==
    /\ prog = "generate_colors" /\ pc = "for"
    /\ \E later \in { { t \in DOMAIN all_colours : t > terrain_name } } :
       IF later = {}
       THEN pc' = "done" /\ UNCHANGED <<terrain_name, colour>>
       ELSE \E t \in later :
                /\ \A u \in later : t <= u
                /\ terrain_name' = t
                /\ colour' = all_colours[t]
                /\ pc' = "while"
    /\ UNCHANGED <<all_colours, used_colours>>
    /\ ColourFrame

\* while colour in used_colours: the test holds, the body is entered
GC_While ==
    /\ prog = "generate_colors" /\ pc = "while"
    /\ colour \in DOMAIN used_colours
    /\ pc' = "nudge"
    /\ UNCHANGED colourVars
    /\ ColourFrame

\* the body of the loop: the colour is parsed, nudged and formatted, and the
\* test is made again
GC_Nudge ==
    /\ prog = "generate_colors" /\ pc = "nudge"
    /\ colour' = Nudge(colour)
    /\ pc' = "while"
    /\ UNCHANGED <<all_colours, used_colours, terrain_name>>
    /\ ColourFrame

\* the terrain keeps its colour and nothing is put into used_colours
GC_Record_NoUsed ==
    /\ prog = "generate_colors" /\ pc = "while"
    /\ colour \notin DOMAIN used_colours
    /\ all_colours' = [all_colours EXCEPT ![terrain_name] = colour]
    /\ pc' = "for"
    /\ UNCHANGED <<used_colours, terrain_name, colour>>
    /\ ColourFrame

\* used_colours[colour] = terrain_name; all_colours[terrain_name] = colour
GC_Record ==
    /\ prog = "generate_colors" /\ pc = "while"
    /\ colour \notin DOMAIN used_colours
    /\ used_colours' = (colour :> terrain_name) @@ used_colours
    /\ all_colours' = [all_colours EXCEPT ![terrain_name] = colour]
    /\ pc' = "for"
    /\ UNCHANGED <<terrain_name, colour>>
    /\ ColourFrame

ColourNext ==
    \/ GC_Categories
    \/ GC_Manual
    \/ GC_For
    \/ GC_While
    \/ GC_Nudge
    \/ GC_Record

ColourSpec == ColourInit /\ [][ColourNext]_vars

\* main runs on its own: a step that can be taken is taken
ColourLiveSpec == ColourSpec /\ WF_vars(ColourNext)

-----------------------------------------------------------------------------
(* Region files the programs are run on *)

MaxBlobs == 2

BE32(n) == <<n \div 16777216, (n \div 65536) % 256, (n \div 256) % 256, n % 256>>

Zeros(n) == [i \in 1..n |-> 0]

RawFrame(content) ==
    <<40, 181, 47, 253, 32, Len(content)>>
    \o <<(8 * Len(content) + 1) % 256, (8 * Len(content) + 1) \div 256, 0>>
    \o content

Blob(src, c) == BE32(src) \o BE32(Len(c)) \o c

\* a blob, filled up to the segment size
Segment(blob, size) == blob \o Zeros(size - Len(blob))

\* the second segment: the chunk {}, a chunk whose srcLength is too small or
\* too large, a blob that is no zstd frame, a chunk that is no BSON, and blobs
\* whose compressedLength reaches behind the end of the file, the bytes there
\* are being the start of a frame or a whole frame
LastSegments ==
    { Blob(5, RawFrame(EmptyDocBytes)),
      Blob(4, RawFrame(EmptyDocBytes)),
      Blob(9, RawFrame(EmptyDocBytes)),
      Blob(5, <<1, 2, 3>>),
      Blob(5, RawFrame(<<5, 0, 0, 0, 1>>)),
      BE32(5) \o BE32(200) \o <<40, 181>>,
      BE32(5) \o BE32(200) \o RawFrame(EmptyDocBytes) }

BadMagics ==
    { [i \in 1..MAGIC_LENGTH |-> IF i = MAGIC_LENGTH THEN 69 ELSE MAGIC_STRING[i]],
      [i \in 1..MAGIC_LENGTH |-> IF i = 1 THEN 104 ELSE MAGIC_STRING[i]] }

RECURSIVE IndexTables(_)
IndexTables(n) ==
    IF n = 0 THEN { <<>> }
    ELSE { t \o <<e>> : t \in IndexTables(n - 1), e \in 0..3 }

\* the entries of an index table, four bytes each
EncIndex(t) == [i \in 1..(4 * Len(t)) |-> BE32(t[((i - 1) \div 4) + 1])[((i - 1) % 4) + 1]]

RegionFile(magic, count, size, t, last) ==
    magic \o BE32(1) \o BE32(count) \o BE32(size) \o EncIndex(t)
    \o Segment(Blob(22, RawFrame(ComponentsDocBytes)), size) \o last

GoodFiles ==
    { RegionFile(MAGIC_STRING, Len(t), size, t, last) :
        t \in UNION { IndexTables(n) : n \in 0..MaxBlobs }, size \in {40, 44},
        last \in LastSegments }

\* more occupied slots than analyze_region reads
FullFile ==
    RegionFile(MAGIC_STRING, 5, 40, <<1, 0, 2, 1, 1>>, Blob(5, RawFrame(EmptyDocBytes)))

BadMagicFiles ==
    { RegionFile(magic, Len(t), 40, t, Blob(5, RawFrame(EmptyDocBytes))) :
        magic \in BadMagics, t \in { <<>>, <<1>>, <<0, 2>> } }

\* files that end early: in the magic, in the header, in the index
ShortFiles == { SubSeq(FullFile, 1, n) : n \in {0, 10, 20, 26, 32, 38} }

\* an index of one slot more than a grid of 32 x 32 has, the last one occupied
GRID_SLOTS == 32 * 32

LongIndexFile ==
    RegionFile(MAGIC_STRING, GRID_SLOTS + 1, 40,
               [s \in 1..(GRID_SLOTS + 1) |-> IF s = GRID_SLOTS + 1 THEN 1 ELSE 0],
               Blob(5, RawFrame(EmptyDocBytes)))

RegionFiles ==
    GoodFiles \cup { FullFile, LongIndexFile } \cup BadMagicFiles \cup ShortFiles

Init ==
    /\ prog \in {"analyze_region", "check_levels", "read_chunk"}
    /\ \/ file \in RegionFiles /\ file_exists = TRUE
       \/ file = <<>> /\ file_exists = FALSE /\ prog # "read_chunk"
    /\ pc = "start"
    /\ err = ""
    /\ f_open = FALSE /\ f_pos = 0
    /\ version = -1 /\ blob_count = -1 /\ segment_size = -1
    /\ blob_indices = <<>> /\ blob_idx = -1 /\ chunks_analyzed = -1
    /\ position = -1 /\ src_length = -1 /\ compressed_length = -1
    /\ compressed_data = <<>> /\ raw_data = <<>> /\ chunk_doc = NoDoc
    /\ dec = "none" /\ doc = Doc({}, <<>>, 0) /\ pos = 0
    /\ result = EmptyDict /\ entries = <<>>
    /\ NoHeightmap
    /\ NoCalls /\ NoWorkers /\ NoColours

analyze_region ==
    \/ AR_Open
    \/ AR_ReadHeader
    \/ AR_ReadBlobIndex
    \/ AR_Loop
    \/ AR_Chunk
    \/ AR_Except

read_chunk ==
    \/ RC_Call
    \/ RC_Locate
    \/ RC_BlobHeader
    \/ RC_BlobData
    \/ RC_Decompress

check_levels ==
    \/ CLM_Open
    \/ CLM_ReadHeader
    \/ CLM_ReadIndices
    \/ CLM_Loop
    \/ CLM_Chunk

Next == analyze_region \/ read_chunk \/ check_levels

Spec == Init /\ [][Next]_vars

-----------------------------------------------------------------------------
(* read_chunk called again and again on one handle, for the slots in any     *)
(* order                                                                     *)

RepeatInit == Init /\ prog = "read_chunk" /\ file \in GoodFiles \cup { FullFile }

\* what a call of read_chunk that has ended gave its caller
ChunkOutcome ==
    CASE pc = "raised" -> [raised |-> err]
      [] pc = "chunk_none" -> [none |-> TRUE]
      [] OTHER -> [returned |-> raw_data]

\* read_chunk has returned or raised and is called for another slot, or for
\* the same one, with the handle where the last call has left it
RC_Again ==
    /\ prog = "read_chunk" /\ blob_idx >= 0
    /\ pc \in {"chunk_none", "chunk_returned", "raised"}
    /\ Len(calls) < MaxCalls - 1
    /\ calls' = Append(calls, [slot |-> blob_idx, at |-> f_pos, outcome |-> ChunkOutcome])
    /\ pc' = "call" /\ err' = ""
    /\ UNCHANGED <<f_open, f_pos, fileVars, headerVars, blobVars, blob_idx,
                   chunks_analyzed, chunk_doc, sectionVars, heightmapVars>>
    /\ UNCHANGED <<workerVars, colourVars>>

RepeatNext ==
    \/ AR_Open
    \/ AR_ReadHeader
    \/ AR_ReadBlobIndex
    \/ read_chunk
    \/ RC_Again

RepeatSpec == RepeatInit /\ [][RepeatNext]_vars

-----------------------------------------------------------------------------
(* Two workers on the occupied slots of a region file *)

\* Files with a good header and index.  The first segment holds a whole blob,
\* the second a whole blob, a blob cut in its bytes or a blob cut in its
\* length fields.  Every byte is below 128, so that four of them read as a
\* length from any offset stay below 2^31.
WorkerSegments ==
    { Blob(5, <<4, 5, 6, 7>>),
      BE32(5) \o BE32(9) \o <<4, 5>>,
      BE32(5) \o <<0, 0>> }

IndexedFiles ==
    { MAGIC_STRING \o BE32(1) \o BE32(Len(t)) \o BE32(size) \o EncIndex(t)
      \o Segment(Blob(7, <<1, 2, 3>>), size) \o last :
        t \in UNION { IndexTables(n) : n \in 2..MaxBlobs }, size \in {12, 16},
        last \in WorkerSegments }

\* a worker about to call read_chunk for slot s through handle h
Worker(s, h) ==
    [slot |-> s, handle |-> h, pc |-> "locate", err |-> "", position |-> -1,
     src_length |-> -1, compressed_length |-> -1, compressed_data |-> <<>>]

\* The header and the index have been read through f; the workers take two
\* occupied slots, and handle 1 is f, where the index has left it, handle 2 a
\* handle opened anew.
WorkerInit ==
    /\ prog = "workers" /\ pc = "chunks" /\ err = ""
    /\ file \in IndexedFiles /\ file_exists = TRUE
    /\ f_open = TRUE
    /\ \E hd \in { read_region_header(file, 0) } :
       \E ix \in { read_blob_index(file, hd.pos, hd.blob_count) } :
           /\ version = hd.version /\ blob_count = hd.blob_count
           /\ segment_size = hd.segment_size
           /\ blob_indices = ix.indices /\ f_pos = ix.pos
           /\ handles \in { [h \in {1, 2} |-> IF h = 1 THEN ix.pos ELSE 0],
                             [h \in {1} |-> ix.pos] }
           /\ \E s1, s2 \in 0..(Len(ix.indices) - 1) :
                  /\ s1 < s2 /\ ix.indices[s1 + 1] # 0 /\ ix.indices[s2 + 1] # 0
                  /\ workers = [w \in Workers |->
                                   Worker(IF w = 1 THEN s1 ELSE s2,
                                          IF w \in DOMAIN handles THEN w ELSE 1)]
    /\ blob_idx = -1 /\ chunks_analyzed = -1
    /\ position = -1 /\ src_length = -1 /\ compressed_length = -1
    /\ compressed_data = <<>> /\ raw_data = <<>> /\ chunk_doc = NoDoc
    /\ dec = "none" /\ doc = Doc({}, <<>>, 0) /\ pos = 0
    /\ result = EmptyDict /\ entries = <<>>
    /\ NoHeightmap /\ NoCalls /\ NoColours

read_chunk_worker(w) ==
    \/ W_Seek(w)
    \/ W_SrcLength(w)
    \/ W_CompressedLength(w)
    \/ W_BlobData(w)

WorkerNext == \E w \in Workers : read_chunk_worker(w)

WorkerSpec == WorkerInit /\ [][WorkerNext]_vars

-----------------------------------------------------------------------------
(* The section layout of the format, as the claims state it                *)

\* the UTF-8 encoding of a string of code points
Utf8Encode1(c) ==
    IF c < 128 THEN <<c>>
    ELSE IF c < 2048 THEN <<192 + (c \div 64), 128 + (c % 64)>>
    ELSE IF c < 65536 THEN <<224 + (c \div 4096), 128 + ((c \div 64) % 64), 128 + (c % 64)>>
    ELSE <<240 + (c \div 262144), 128 + ((c \div 4096) % 64),
           128 + ((c \div 64) % 64), 128 + (c % 64)>>

RECURSIVE Utf8Encode(_)
Utf8Encode(cs) == IF cs = <<>> THEN <<>> ELSE Utf8Encode1(Head(cs)) \o Utf8Encode(Tail(cs))

\* internalId (1), nameLength (2), name, count (2)
RecordBytes(e) == <<e.id>> \o BE16(Len(Utf8Encode(e.name))) \o Utf8Encode(e.name) \o BE16(e.count)

RECURSIVE TableBytes(_)
TableBytes(es) == IF es = <<>> THEN <<>> ELSE RecordBytes(Head(es)) \o TableBytes(Tail(es))

\* a decoder has just finished the palette table
TableDone ==
    \/ dec = "fluid" /\ pc = "block_data"
    \/ dec = "block" /\ pc = "returned" /\ "entries" \in DOMAIN result
    \/ dec = "levels" /\ pc = "has_levels"

\* the entry list it produced and its read position after the table
TableEntries == IF dec = "levels" THEN result.palette ELSE result.entries
TableEnd == IF dec = "levels" THEN pos - NIBBLE_ARRAY_BYTES ELSE pos

\* the table is the big-endian entryCount at offset base + 1 followed by
\* exactly the records of the entry list, and the read position is behind it
TableAt(base) ==
    /\ Len(TableEntries) = U16BE(Slice(data, base + 1, base + 3))
    /\ Slice(data, base + 3, TableEnd) = TableBytes(TableEntries)
    /\ TableEnd = base + 3 + Len(TableBytes(TableEntries))

\* C8 as stated: for a non-EMPTY section the palette table is entryCount
\* (u16 BE) and entryCount records internalId, nameLength, name, count; the
\* decoded list has exactly entryCount entries in buffer order and the read
\* position after the table is 3 + sum of (5 + nameLength).
C8_TableEndsAt3PlusRecords == TableDone => TableAt(0)

\* C8 amended: the same, with the table starting behind the 4-byte migration
\* version when analyze_block_section is given Version >= 6 (position 7 + sum).
C8_TableParsedInBufferOrder ==
    TableDone => TableAt(IF dec = "block" /\ BlockVersion >= 6 THEN 4 ELSE 0)

\* C8 witness: a decoder has finished a table of MaxEntries entries, one with a
\* two-byte name and one with a two-byte count
C8_Witness ==
    /\ TableDone
    /\ Len(TableEntries) = MaxEntries
    /\ \E k \in 1..Len(TableEntries) : Len(Utf8Encode(TableEntries[k].name)) = 2
    /\ \E k \in 1..Len(TableEntries) : TableEntries[k].count = 258

\* a decoder returned a section whose paletteType is not EMPTY
Has(key) == key \in DOMAIN result
DecodedNonEmpty ==
    /\ pc = "returned"
    /\ \/ dec = "fluid" /\ Has("palette_type") /\ result.palette_type # 0
       \/ dec = "levels" /\ Has("ec")

\* C3: for every palette section that decodes successfully with paletteType
\* other than EMPTY, every decoded voxel index, and every decoded level value
\* if levels are present, is strictly less than entryCount.
C3_IndicesBelowEntryCount ==
    DecodedNonEmpty =>
        /\ Has("sample_positions") =>
               \A k \in DOMAIN result.sample_positions :
                   result.sample_positions[k].palette_idx < result.entry_count
        /\ Has("sample_levels") =>
               \A k \in DOMAIN result.sample_levels :
                   result.sample_levels[k].level < result.entry_count
        /\ Has("Levels") =>
               \A k \in DOMAIN result.Levels : result.Levels[k].level < result.ec

\* the two nibble orders of the format: with EvenLow voxel 2k is b & 0xF and
\* voxel 2k+1 is (b >> 4) & 0xF, with EvenHigh the other way round
NibbleOf(b, i, order) ==
    IF (order = "EvenLow") = (i % 2 = 0) THEN b % 16 ELSE (b \div 16) % 16

NibbleVoxels(arr, order) ==
    { i \in 0..(VOXELS - 1) : NibbleOf(arr[(i \div 2) + 1], i, order) # 0 }

\* the samples are the first voxels of arr, ascending, whose nibble in the
\* given order is not 0, each with that nibble as its value
SamplesDecode(index, value, n, arr, order) ==
    \E nz \in { NibbleVoxels(arr, order) } :
        /\ n = Min2(SAMPLE_LIMIT, Cardinality(nz))
        /\ \A k \in 1..n :
               /\ index[k] \in nz
               /\ value[k] = NibbleOf(arr[(index[k] \div 2) + 1], index[k], order)
               /\ value[k] \in 0..15
               /\ k > 1 => index[k - 1] < index[k]
               /\ \A i \in 0..(index[k] - 1) : i \in nz => \E j \in 1..(k - 1) : index[j] = i

\* the voxel array analyze_fluid_section has just decoded, and the level
\* arrays the two decoders have just decoded
FluidArrayDecoded == dec = "fluid" /\ pc = "has_levels" /\ result.palette_type = 1
FluidLevelsDecoded == dec = "fluid" /\ pc = "returned" /\ Has("sample_levels")
CL_LevelsDecoded == dec = "levels" /\ pc = "returned" /\ Has("Levels")

VoxelIndex(r) == r.y * 1024 + r.z * 32 + r.x

\* C4: the fluid voxel array is decoded with EvenHigh and the level array with
\* EvenLow (voxel 2k and 2k+1 from byte k), every decoded value in 0..15; the
\* count of non-zero voxels is that of the same order.
C4_NibbleOrders ==
    /\ FluidArrayDecoded =>
           \E arr \in { Slice(data, pos - NIBBLE_ARRAY_BYTES, pos) } :
               /\ SamplesDecode([k \in DOMAIN result.sample_positions |->
                                     result.sample_positions[k].index],
                                [k \in DOMAIN result.sample_positions |->
                                     result.sample_positions[k].palette_idx],
                                Len(result.sample_positions), arr, "EvenHigh")
               /\ result.fluid_block_count = Cardinality(NibbleVoxels(arr, "EvenHigh"))
    /\ FluidLevelsDecoded =>
           \E arr \in { Slice(data, pos - NIBBLE_ARRAY_BYTES, pos) } :
               /\ SamplesDecode([k \in DOMAIN result.sample_levels |->
                                     result.sample_levels[k].index],
                                [k \in DOMAIN result.sample_levels |->
                                     result.sample_levels[k].level],
                                Len(result.sample_levels), arr, "EvenLow")
               /\ result.non_zero_levels = Cardinality(NibbleVoxels(arr, "EvenLow"))
    /\ CL_LevelsDecoded =>
           \E arr \in { Slice(data, pos, pos + NIBBLE_ARRAY_BYTES) } :
               SamplesDecode([k \in DOMAIN result.Levels |-> VoxelIndex(result.Levels[k])],
                             [k \in DOMAIN result.Levels |-> result.Levels[k].level],
                             Len(result.Levels), arr, "EvenLow")

\* C4 witness, the test vector: byte 0 of both arrays is 0xA5, which gives
\* voxels 0 and 1 the palette indices 10, 5 and the levels 5, 10
C4_Witness ==
    /\ FluidLevelsDecoded /\ Has("sample_positions")
    /\ Len(result.sample_positions) = 2 /\ Len(result.sample_levels) = 2
    /\ result.sample_positions[1].index = 0 /\ result.sample_positions[1].palette_idx = 10
    /\ result.sample_positions[2].index = 1 /\ result.sample_positions[2].palette_idx = 5
    /\ result.sample_levels[1].index = 0 /\ result.sample_levels[1].level = 5
    /\ result.sample_levels[2].index = 1 /\ result.sample_levels[2].level = 10

\* a decoder returned from a section whose paletteType byte is 0
DecodedEmpty ==
    /\ pc = "returned" /\ dec \in {"fluid", "block"}
    /\ Has("palette_type") /\ result.palette_type = 0

VoxelArrayBytes(palette_type) ==
    CASE palette_type = 1 -> 16384
      [] palette_type = 2 -> 32768
      [] palette_type = 3 -> 65536

\* C7: for every non-EMPTY section hasLevels is read at the offset right
\* behind a voxel index array of 16384 (HALF_BYTE), 32768 (BYTE) or 65536
\* (SHORT) bytes, and every decoder of the Fluid section reads it there.
C7_HasLevelsBehindVoxelArray ==
    (dec \in {"fluid", "levels"} /\ pc = "has_levels" /\ data[1] \in {1, 2, 3}) =>
        pos = 3 + Len(TableBytes(entries)) + VoxelArrayBytes(data[1])

-----------------------------------------------------------------------------
(* The heightmap codec *)

\* analyze_heightmap has read the header of the heightmap
HeaderRead == dec = "heightmap" /\ Has("height_bitfield_length")

\* paletteCount as the buffer states it: lo + 256 * hi of bytes 1 and 2
PaletteCountOf(d) == d[2] + 256 * d[3]

\* C9: after the 1-byte needsPhysics flag paletteCount is lo + 256*hi of the
\* next two bytes, each height is the two's-complement signed 16-bit value of
\* its two bytes (low byte first) in buffer order, bitfieldLength is the
\* little-endian unsigned 32-bit value of the next four bytes, and the
\* bitfield starts at offset 7 + 2*paletteCount.
C9_HeaderLittleEndian ==
    HeaderRead =>
        \E d \in { data } : \E n \in { PaletteCountOf(d) } :
            /\ result.needs_physics = (d[1] # 0)
            /\ result.height_palette_count = n
            /\ Len(heights_palette) = n
            /\ \A k \in 1..n :
                   \E v \in { d[2 + 2 * k] + 256 * d[3 + 2 * k] } :
                       /\ heights_palette[k] = IF v < 32768 THEN v ELSE v - 65536
                       /\ heights_palette[k] \in -32768..32767
            /\ result.height_bitfield_length =
                   d[4 + 2 * n] + 256 * d[5 + 2 * n] + 65536 * d[6 + 2 * n]
                   + 16777216 * d[7 + 2 * n]
            /\ pc = "bitfield_data" => pos = 7 + 2 * n
            /\ pc \in {"column", "returned"} =>
                   bitfield_data =
                       Slice(d, 7 + 2 * n, 7 + 2 * n + result.height_bitfield_length)

\* C9 witness: the header of a palette with the two extreme heights has been read
C9_Witness ==
    /\ HeaderRead /\ pc = "bitfield_data"
    /\ heights_palette = <<-32768, 32767, -1>>
    /\ result.height_bitfield_length = 1280
    /\ pos = 13

\* C10: for every decoded column, an index below paletteCount is reported with
\* heightPalette[index] and an index of paletteCount or more with the sentinel
\* -1, so no reported palette height comes from an index outside the palette.
C10_SentinelOutsidePalette ==
    (dec = "heightmap" /\ pc \in {"column", "returned"}) =>
        \A hs \in { sample_heights } \cup
                  (IF Has("sample_heights") THEN { result.sample_heights } ELSE {}) :
            \A k \in DOMAIN hs :
                /\ hs[k].palette_idx < palette_count =>
                       hs[k].height = heights_palette[hs[k].palette_idx + 1]
                /\ hs[k].palette_idx >= palette_count => hs[k].height = -1

\* C10 witness: a decoded heightmap has a column inside and one outside its palette
C10_Witness ==
    /\ dec = "heightmap" /\ pc = "returned" /\ palette_count = 4
    /\ \E k \in DOMAIN result.sample_heights :
           /\ result.sample_heights[k].palette_idx = 1023
           /\ result.sample_heights[k].height = -1
    /\ \E k \in DOMAIN result.sample_heights :
           /\ result.sample_heights[k].palette_idx < 4
           /\ result.sample_heights[k].height = heights_palette[1]

COLUMNS == 1024

\* the 10-bit value at bits 10c .. 10c+9 of the bitfield bf, bit n being bit
\* n mod 8 of byte n div 8, and 0 behind the end of bf
ByteOrZero(bf, k) == IF k < Len(bf) THEN bf[k + 1] ELSE 0
FieldAt(bf, c) ==
    ((ByteOrZero(bf, (10 * c) \div 8) + 256 * ByteOrZero(bf, (10 * c) \div 8 + 1))
        \div (2 ^ ((10 * c) % 8))) % 1024

\* the columns of the heightmap have been decoded
ColumnsDecoded == dec = "heightmap" /\ pc = "returned" /\ Has("sample_heights")

-----------------------------------------------------------------------------
(* The container reader *)

\* the index entry of the slot whose chunk is being located
SlotEntry == blob_indices[blob_idx + 1]

\* C1: for every slot of the blob index, locating the chunk returns None if
\* and only if blobIndex[slot] = 0, and otherwise the byte offset seeked to is
\* 32 + blobCount*4 + (blobIndex[slot] - 1)*segmentSize.
C1_LocateOffset ==
    /\ (prog # "none" /\ pc = "chunk_none") => SlotEntry = 0
    /\ (prog # "none" /\ pc = "blob_header") =>
           /\ SlotEntry # 0
           /\ blob_count = Len(blob_indices)
           /\ f_pos = 32 + blob_count * 4 + (SlotEntry - 1) * segment_size

\* C1 witness: read_chunk has seeked to the second segment of a file of two slots
C1_Witness ==
    /\ prog = "read_chunk" /\ pc = "blob_header"
    /\ blob_count = 2 /\ segment_size = 44 /\ SlotEntry = 2
    /\ f_pos = 84

\* the file does not start with the 20 bytes of the magic token
BadMagic == file_exists /\ Read(file, 0, 20) # MAGIC_STRING

\* C2: reading the header of a file whose first 20 bytes are not the magic
\* token fails with an error, whatever bytes follow; no version, blobCount,
\* segmentSize or blob index is produced and no chunk is read from the file.
C2_BadMagicRejected ==
    (prog # "none" /\ BadMagic /\ pc \notin {"start", "header"}) =>
        /\ pc = "raised" /\ err # ""
        /\ version = -1 /\ blob_count = -1 /\ segment_size = -1
        /\ blob_indices = <<>>
        /\ position = -1 /\ compressed_data = <<>> /\ raw_data = <<>>

\* the programs that read a region file
RegionPrograms == {"analyze_region", "check_levels", "read_chunk"}

\* C11: a blob of which fewer than compressedLength bytes are left in the file
\* behind the two length fields is an error: the byte range handed to the
\* decompressor, and a chunk got from it, is never shorter than compressedLength.
C11_TruncatedBlobRejected ==
    (prog \in RegionPrograms /\ pc \in {"decompress", "chunk_returned"}) =>
        Len(compressed_data) = compressed_length

-----------------------------------------------------------------------------
(* Truncated buffers *)

\* C12: a decode of a section or heightmap buffer in which a declared length
\* (entryCount, nameLength, the voxel or level array, paletteCount,
\* bitfieldLength) exceeds the bytes that remain gives no result: whenever a
\* decoder returns, every read it made lies inside the buffer, and the
\* bitfield it decoded has the declared length.
C12_DeclaredLengthsWithinBuffer ==
    (dec \in {"fluid", "block", "heightmap"} /\ pc = "returned" /\ "Data" \in doc.keys) =>
        /\ pos <= Len(data)
        /\ Has("height_bitfield_length") =>
               Len(bitfield_data) = result.height_bitfield_length

-----------------------------------------------------------------------------
(* Decompression *)

\* C13: decompressing a blob gives exactly srcLength raw bytes or fails: a
\* chunk that read_chunk returns, and that is handed to the document decoder,
\* is never shorter or longer than src_length.
C13_DecompressedSizeIsSrcLength ==
    (prog \in RegionPrograms /\ pc = "chunk_returned") => Len(raw_data) = src_length

-----------------------------------------------------------------------------
(* The scan of a region *)

\* the index has been read and the loop over its slots has begun
Scanning == prog \in {"analyze_region", "check_levels"} /\ blob_idx >= 0

\* C14: during a region scan a chunk that fails to be read, decompressed or
\* decoded is recorded and the scan goes on: no exception leaves the loop over
\* the slots, and a caught one is kept for the report with the file still open.
C14_ChunkFailureIsolated ==
    /\ Scanning => pc # "raised"
    /\ (Scanning /\ pc = "except") => (err # "" /\ f_open)

\* the program is before or behind its "with open(...) as f" block
Outside == pc \in {"start", "done", "raised"}

\* C15: the handle of the region file is open only while the region is being
\* read, and is closed on every exit path of analyze_region and of
\* check_levels.py: normal completion, early stop of the scan, a header
\* failure and a chunk failure.
C15_HandleClosedOnEveryExit ==
    prog \in {"analyze_region", "check_levels"} => (f_open <=> ~Outside)

\* C15 witness: check_levels.py has been ended by a chunk that is no BSON,
\* after reading it through the handle, and the handle is closed
C15_Witness ==
    /\ prog = "check_levels" /\ pc = "raised" /\ err = "InvalidBSON"
    /\ raw_data # <<>> /\ f_pos > HEADER_LENGTH
    /\ ~f_open

-----------------------------------------------------------------------------
(* Concurrent blob reads *)

\* the offset of the blob of worker w's slot
BlobOffset(w) ==
    32 + blob_count * 4 + (blob_indices[workers[w].slot + 1] - 1) * segment_size

\* no other worker uses the handle of worker w
OwnHandle(w) == \A v \in Workers \ {w} : workers[v].handle # workers[w].handle

\* what worker w has read so far is what the file holds at the offset of its
\* slot: the two length fields and the bytes behind them
ReadsOwnBlob(w) ==
    \E me \in { workers[w] } : \E p \in { BlobOffset(w) } :
        /\ me.pc \in {"compressed_length", "blob_data", "decompress"} =>
               me.src_length = U32BE(Slice(file, p, p + 4))
        /\ me.pc \in {"blob_data", "decompress"} =>
               me.compressed_length = U32BE(Slice(file, p + 4, p + 8))
        /\ me.pc = "decompress" =>
               me.compressed_data = Slice(file, p + 8, p + 8 + me.compressed_length)
        /\ me.pc = "raised" => Len(file) < p + 8

\* C16: with two workers reading different slots at the same time, a worker
\* with a handle of its own reads the length fields and the bytes stored at
\* the offset of its own slot, under every interleaving.
C16_OwnHandleReadsOwnBlob ==
    prog = "workers" => \A w \in Workers : OwnHandle(w) => ReadsOwnBlob(w)

\* C16 witness: with the single shared handle and seek-then-read, a worker
\* has ended its read without an error and holds bytes of another offset,
\* while the other worker holds its own blob
C16_Witness ==
    /\ prog = "workers"
    /\ ~OwnHandle(1)
    /\ workers[1].pc = "decompress" /\ workers[2].pc = "decompress"
    /\ ~ReadsOwnBlob(1) /\ ReadsOwnBlob(2)

-----------------------------------------------------------------------------
(* The slots a scan visits *)

\* slot s of the index is occupied; the occupied slots below slot s
Occupied(s) == blob_indices[s + 1] # 0
OccupiedBelow(s) == { k \in 0..(s - 1) : Occupied(k) }

\* the scan is at a slot it reads the chunk of
Visiting ==
    \/ prog = "analyze_region" /\ pc = "locate"
    \/ prog = "check_levels" /\ pc = "blob_header"

-----------------------------------------------------------------------------
(* Chunk coordinates *)

\* the coordinates the scan gives the chunk of the slot it is at: computed by
\* analyze_region before it reads the chunk, by check_levels.py once the chunk
\* is decoded
ChunkCoordinates ==
    CASE prog = "analyze_region" /\ pc = "locate" ->
             { [x |-> LocalX(blob_idx), z |-> LocalZ(blob_idx)] }
      [] prog = "check_levels" /\ pc = "chunk_returned" /\ BsonDecode(raw_data).err = "" ->
             { [x |-> CL_LocalX(blob_idx), z |-> CL_LocalZ(blob_idx)] }
      [] OTHER -> {}

\* C18: for every slot of the blob index the chunk coordinates are
\* localX = slot mod 32 and localZ = floor(slot / 32), both in 0..31, and
\* slot = localZ*32 + localX.
C18_ChunkCoordinatesInGrid ==
    \A c \in ChunkCoordinates :
        /\ c.x = blob_idx % 32 /\ c.z = blob_idx \div 32
        /\ c.x \in 0..31 /\ c.z \in 0..31
        /\ blob_idx = c.z * 32 + c.x

-----------------------------------------------------------------------------
(* Decoding again *)

\* the calls of a run that have ended, the one that has just ended included
EndedCalls ==
    { calls[k] : k \in DOMAIN calls }
    \cup (IF pc \in {"returned", "raised"}
          THEN { [dec |-> dec, doc |-> doc, outcome |-> Outcome] } ELSE {})

\* C19: decoding is deterministic and free of history: two calls of a
\* decoder on the same buffer give the same result, whatever calls were made
\* before and between them and whatever they left behind.
C19_SameBufferSameResult ==
    dec \in Decoders =>
        \A a, b \in EndedCalls : (a.dec = b.dec /\ a.doc = b.doc) => a.outcome = b.outcome

\* C19 witness: the heightmap decoder has run on a buffer, a section decoder
\* on another one, and the heightmap decoder on the first buffer again, with
\* what the section decoder left behind, and has returned the same 20 columns
C19_Witness ==
    /\ Len(calls) = 2 /\ pc = "returned" /\ dec = "heightmap"
    /\ calls[1].dec = "heightmap" /\ calls[1].doc = doc
    /\ calls[2].dec = "fluid" /\ "sample_levels" \in DOMAIN calls[2].outcome.returned
    /\ pos > 0 /\ entries # <<>>
    /\ Len(result.sample_heights) = 20
    /\ calls[1].outcome = [returned |-> result]

-----------------------------------------------------------------------------
(* The voxel index *)

Coordinates == 0..31

\* index = y<<10 | z<<5 | x
IndexAt(x, y, z) == y * 1024 + z * 32 + x

\* the position of voxel i at the three places where a voxel index is turned
\* into one: all three give the same position
SamePosition(i) ==
    /\ LevelX(i) = VoxelX(i) /\ LevelY(i) = VoxelY(i) /\ LevelZ(i) = VoxelZ(i)
    /\ CL_VoxelX(i) = VoxelX(i) /\ CL_VoxelY(i) = VoxelY(i) /\ CL_VoxelZ(i) = VoxelZ(i)

SamplesDecoded ==
    /\ pc = "returned"
    /\ \/ dec = "fluid" /\ (Has("sample_positions") \/ Has("sample_levels"))
       \/ dec = "levels" /\ Has("Levels")

\* the positions a decoder has reported with their voxel index
IndexedSamples ==
    (IF Has("sample_positions")
     THEN { result.sample_positions[k] : k \in DOMAIN result.sample_positions } ELSE {})
    \cup (IF Has("sample_levels")
          THEN { result.sample_levels[k] : k \in DOMAIN result.sample_levels } ELSE {})

\* C20: the position of voxel i is x = i & 0x1F, z = (i >> 5) & 0x1F,
\* y = (i >> 10) & 0x1F in every decoder; the map is a bijection between the
\* indices 0..32767 and the positions 0..31 x 0..31 x 0..31, its inverse is
\* (y << 10) | (z << 5) | x, and every position a decoder reports is the one
\* of its voxel index.
C20_VoxelMapIsBijection ==
    SamplesDecoded =>
        /\ \A i \in 0..(VOXELS - 1) :
               /\ SamePosition(i)
               /\ VoxelX(i) \in Coordinates /\ VoxelY(i) \in Coordinates
               /\ VoxelZ(i) \in Coordinates
               /\ IndexAt(VoxelX(i), VoxelY(i), VoxelZ(i)) = i
        /\ \A x, y, z \in Coordinates :
               /\ IndexAt(x, y, z) \in 0..(VOXELS - 1)
               /\ VoxelX(IndexAt(x, y, z)) = x /\ VoxelY(IndexAt(x, y, z)) = y
               /\ VoxelZ(IndexAt(x, y, z)) = z
        /\ \A r \in IndexedSamples :
               /\ r.x = r.index % 32 /\ r.z = (r.index \div 32) % 32
               /\ r.y = (r.index \div 1024) % 32
               /\ IndexAt(r.x, r.y, r.z) = r.index
        /\ (dec = "levels") =>
               \A k \in DOMAIN result.Levels :
                   /\ result.Levels[k].x \in Coordinates /\ result.Levels[k].y \in Coordinates
                   /\ result.Levels[k].z \in Coordinates
                   /\ \A j \in DOMAIN result.Levels :
                          j < k => VoxelIndex(result.Levels[j]) < VoxelIndex(result.Levels[k])

\* C20 witness: voxel 24690 of the voxel array and of the level array is
\* reported at x 18, y 24, z 3
C20_Witness ==
    /\ dec = "fluid" /\ pc = "returned"
    /\ Has("sample_positions") /\ Has("sample_levels")
    /\ Len(result.sample_positions) = 2 /\ Len(result.sample_levels) = 2
    /\ result.sample_positions[1] =
           [index |-> 24690, x |-> 18, y |-> 24, z |-> 3, palette_idx |-> 10]
    /\ result.sample_levels[1] = [index |-> 24690, x |-> 18, y |-> 24, z |-> 3, level |-> 5]

-----------------------------------------------------------------------------
(* One palette layout for Block and Fluid *)

PaletteKeys == {"palette_type", "entry_count", "entries"}

\* what a call reports of the palette: paletteType, entryCount and the entry
\* list of the dict it returned, nothing if it raised
PaletteOf(outcome) ==
    IF "returned" \in DOMAIN outcome
    THEN [k \in PaletteKeys \cap DOMAIN outcome.returned |-> outcome.returned[k]]
    ELSE <<>>

\* the Fluid call that has ended was given the bytes the Block call before it
\* read its palette from: all of Data, or Data behind the 4 bytes of migration
\* version if the Block has Version >= 6
BothDecoded ==
    /\ prog = "none" /\ dec = "fluid" /\ pc \in {"returned", "raised"}
    /\ Len(calls) = 1 /\ calls[1].dec = "block"
    /\ doc.Data = IF "Version" \in calls[1].doc.keys /\ calls[1].doc.Version >= 6
                  THEN Drop(calls[1].doc.Data, 4) ELSE calls[1].doc.Data

\* C21: for the same Data bytes analyze_block_section and
\* analyze_fluid_section report the same paletteType, entryCount and entry
\* list, paletteType being the first byte of Data, or the fifth one for a
\* Block of Version >= 6.
C21_SamePaletteLayout ==
    BothDecoded =>
        /\ PaletteOf(calls[1].outcome) = PaletteOf(Outcome)
        /\ Has("palette_type") => result.palette_type = data[1]

-----------------------------------------------------------------------------
(* The colours of the terrains *)

PassDone == prog = "generate_colors" /\ pc = "done"

\* C22: when the pass that nudges duplicates has ended, the colours of all
\* terrains are pairwise distinct, whatever colours they had before it.
C22_ColoursPairwiseDistinct ==
    PassDone =>
        \A t, u \in DOMAIN all_colours : t # u => all_colours[t] # all_colours[u]

\* C22 witness: terrains 1 and 3 were both given 0x7d7985; terrain 3 was
\* nudged to 0x808080, the colour of terrain 2, and on to 0x838787
C22_Witness ==
    /\ PassDone /\ DOMAIN all_colours = {1, 2, 3, 4}
    /\ all_colours[1] = <<7, 13, 7, 9, 8, 5>> /\ all_colours[2] = <<8, 0, 8, 0, 8, 0>>
    /\ all_colours[3] = <<8, 3, 8, 7, 7, 11>>
    /\ used_colours[<<8, 3, 8, 7, 7, 11>>] = 3

C24_NudgingTerminates ==
    (prog = "generate_colors" /\ pc = "while") ~> (pc = "for")

-----------------------------------------------------------------------------
(* Reading a blob with the handle anywhere *)

\* what read_chunk reads for an index entry on a handle that has just been
\* opened: the reads of lines 50-53 behind the seek
FreshRead(f, entry, count, size) ==
    LET p == 32 + count * 4 + (entry - 1) * size
        src == ReadU32(f, p)
        cl == ReadU32(f, p + 4)
    IN  IF src.err # "" THEN [err |-> src.err]
        ELSE IF cl.err # "" THEN [err |-> cl.err, src_length |-> src.val]
        ELSE [err |-> "", src_length |-> src.val, compressed_length |-> cl.val,
              compressed_data |-> Read(f, p + 8, cl.val)]

\* read_chunk runs on the region file for a slot that has a blob
ReadingBlob ==
    /\ prog = "read_chunk" /\ blob_idx >= 0 /\ blob_idx < Len(blob_indices)
    /\ blob_indices[blob_idx + 1] # 0

\* C25: whatever reads were made on the handle before, in whatever slot order
\* and failed or not, read_chunk reads for an index entry the length fields
\* and bytes it reads on a handle that has just been opened, and fails where
\* it fails there.
C25_BlobReadIgnoresHandlePosition ==
    ReadingBlob =>
        \E fresh \in { FreshRead(file, blob_indices[blob_idx + 1], blob_count, segment_size) } :
            /\ pc \in {"decompress", "chunk_returned"} =>
                   /\ fresh.err = ""
                   /\ src_length = fresh.src_length
                   /\ compressed_length = fresh.compressed_length
                   /\ compressed_data = fresh.compressed_data
            /\ pc = "blob_data" =>
                   /\ fresh.err = ""
                   /\ src_length = fresh.src_length
                   /\ compressed_length = fresh.compressed_length
            /\ (pc = "raised" /\ err = "struct.error") => fresh.err = "struct.error"
            /\ (pc = "raised" /\ err # "struct.error") => fresh.err = ""

\* C25 witness: the blob of segment 1 was read, then the read of the blob of
\* segment 2 failed, and the blob of segment 1 is read again with the handle
\* behind it
C25_Witness ==
    /\ ReadingBlob /\ pc = "decompress" /\ Len(calls) = 2
    /\ blob_indices[blob_idx + 1] = 1
    /\ calls[1].slot = blob_idx /\ "returned" \in DOMAIN calls[1].outcome
    /\ blob_indices[calls[2].slot + 1] = 2 /\ "raised" \in DOMAIN calls[2].outcome
    /\ calls[2].at > position
    /\ src_length = 22 /\ compressed_data = RawFrame(ComponentsDocBytes)

-----------------------------------------------------------------------------
(* The sentinel of the heightmap decoder *)

\* the 10-bit column values that are no index of the palette
OutsidePalette == { v \in 0..1023 : v >= palette_count }

\* C26: in the output of analyze_heightmap the height reported for a column
\* whose index is outside the palette is never a height that a column with
\* an index inside the palette has: the two can be told apart by the height.
C26_SentinelDistinguishable ==
    (dec = "heightmap" /\ pc = "returned" /\ Has("sample_heights")) =>
        \A k \in DOMAIN result.sample_heights :
            result.sample_heights[k].palette_idx < palette_count =>
                \A v \in OutsidePalette :
                    result.sample_heights[k].height # ActualHeight(v, heights_palette)

====
